---- MODULE Spec2Model ----
(***************************************************************************)
(* Request/reply multiplexer of the ADS client (src/src/client.rs):        *)
(* ClientInner::communicate run by several caller threads, the reader      *)
(* thread (Reader::run / Reader::run_inner), the reply registry, the       *)
(* buffer pool channel, the notification channel and the tracked set of    *)
(* notification handles maintained by Device::add_notification and         *)
(* Device::delete_notification.                                            *)
(***************************************************************************)
EXTENDS Integers, Sequences, FiniteSets, TLC

(***************************************************************************)
(* Bounds of the model.                                                    *)
(***************************************************************************)
\* width in bits of the invoke-ID counter (AtomicU32 in the source: 32)
IdBits == 1
\* capacity of the buffer pool channel (1024 in the source, scaled down)
MAX_BUF_QUEUE == 1
\* capacity of the notification channel (16384 in the source, scaled down)
MAX_NOTIFICATION_QUEUE == 1

\* width in bits of the length fields of the header, 32 in the source
LenBits == 6

\* sum-up calls: the number of sub-requests and the size of a read buffer
MaxReq == 3
MaxCap == 3

\* stamps of a notification frame
MaxStamps == 2

\* items added to a UDP message
MaxItems == 3

\* sessions of the connection that are followed (the session id is capped)
MaxSession == 4

\* restart events a subscriber is followed through
MaxGot == 2

\* the caller threads that share the client
Callers == {"t1", "t2"}
IdMod == 2 ^ IdBits
Ids == 0..(IdMod - 1)

(***************************************************************************)
(* Program constants.                                                      *)
(***************************************************************************)
AMS_HEADER_SIZE == 38
AddNotification == 6
DeleteNotification == 7
Notification == 8
Read == 2
ReadWrite == 9
Write == 3
\* size of the AMS/TCP header that starts every frame
TCP_HEADER_SIZE == 6
\* state flags of a request and of a reply
FlagsRequest == 4
FlagsReply == 5
\* size of the result field that starts the payload of a reply
ResultSize == 4

\* AMS addresses (NetID + port): the client's own source, the device the
\* callers talk to, and another device
Me == "Me"
Devices == {"D1", "D2"}
Targets == {"D1"}

\* values of the registry that are not the slot of a caller in a call: no
\* entry, and the slot of a call that has returned
NoEntry == "NoEntry"
Orphan == "Orphan"
\* an empty delivery slot
NoFrame == [ams |-> "none"]

\* little-endian decoding of a byte sequence, as U32::<LE>::get
RECURSIVE LE32(_)
LE32(bytes) ==
    IF bytes = <<>> THEN 0 ELSE Head(bytes) + 256 * LE32(Tail(bytes))

\* the first n elements of a sequence, and the rest
Take(s, n) == SubSeq(s, 1, n)
Drop(s, n) == SubSeq(s, n + 1, Len(s))

\* notification handles a caller may ask to delete
Handles == {1, 2}

(***************************************************************************)
(* Frames the peer can put on the socket.  hasResult tells whether the     *)
(* frame has a payload at all (42 bytes or more); result is the value of   *)
(* the first four payload bytes (the result field of a reply, the length   *)
(* field of a notification); data are the payload bytes after them; dlen   *)
(* is the data-length field of the header, which the peer may set wrongly. *)
(***************************************************************************)
PayloadLen(hasResult, data) == IF hasResult THEN ResultSize + Len(data) ELSE 0

Frame(dst, s, k, fl, skew, e, i, hr, r, d) ==
    [ams |-> 0, dest |-> dst, src |-> s, cmd |-> k, flags |-> fl,
     dlen |-> PayloadLen(hr, d) + skew, err |-> e, id |-> i,
     hasResult |-> hr, result |-> r, data |-> d]

ReplyPayloads ==
    { [hasResult |-> FALSE, result |-> 0, data |-> <<>>],
      [hasResult |-> TRUE, result |-> 1, data |-> <<>>],
      [hasResult |-> TRUE, result |-> 0, data |-> <<>>],
      [hasResult |-> TRUE, result |-> 0, data |-> <<1, 0, 0, 0>>],
      [hasResult |-> TRUE, result |-> 0, data |-> <<2, 0, 0, 0>>] }

NotifPayloads ==
    { [hasResult |-> FALSE, result |-> 0, data |-> <<>>],
      [hasResult |-> TRUE, result |-> 0, data |-> <<>>],
      [hasResult |-> TRUE, result |-> 0, data |-> <<0, 0, 0, 0>>],
      [hasResult |-> TRUE, result |-> 4, data |-> <<0, 0, 0, 0>>],
      [hasResult |-> TRUE, result |-> 4, data |-> <<1, 0, 0, 0>>] }

\* every frame addressed to the client with consistent lengths and a reply
\* command: all combinations of the fields communicate validates
ReplyFrames ==
    { Frame(Me, s, k, fl, 0, e, i, p.hasResult, p.result, p.data) :
        s \in Devices, k \in {AddNotification, DeleteNotification},
        fl \in {FlagsRequest, FlagsReply}, e \in {0, 1}, i \in Ids,
        p \in ReplyPayloads }

\* replies to a DeleteNotification request: the good one, one with an AMS
\* error code and one from another device, for every invoke id
SimpleReplyFrames ==
    { Frame(Me, s, DeleteNotification, FlagsReply, 0, e, i, TRUE, 0, <<>>) :
        s \in Devices, e \in {0, 1}, i \in Ids } \
    { Frame(Me, "D2", DeleteNotification, FlagsReply, 0, 1, i, TRUE, 0, <<>>) :
        i \in Ids }

\* replies of a device to add and delete requests: success with a handle,
\* success without data, and a nonzero result code
DeviceReplyFrames ==
    { Frame(Me, "D1", k, FlagsReply, 0, 0, i, TRUE, p.result, p.data) :
        k \in {AddNotification, DeleteNotification}, i \in Ids,
        p \in ReplyPayloads \ { [hasResult |-> FALSE, result |-> 0, data |-> <<>>] } }

\* frames addressed to the client that carry the Notification command
NotifFrames ==
    { Frame(Me, "D1", Notification, fl, 0, e, 0, p.hasResult, p.result, p.data) :
        fl \in {FlagsRequest, FlagsReply}, e \in {0, 1}, p \in NotifPayloads }

\* frames addressed to somebody else
ForeignFrames ==
    { Frame("D1", "D2", k, FlagsReply, 0, 0, i, TRUE, 0, <<>>) :
        k \in {DeleteNotification, Notification}, i \in Ids }

\* frames whose data-length field disagrees with their size
SkewedFrames ==
    { Frame(dst, "D1", k, FlagsReply, 1, 0, i, TRUE, 0, <<>>) :
        dst \in {Me, "D1"}, k \in {DeleteNotification, Notification}, i \in Ids }

\* data a device returns after the result field of a Read reply: up to five
\* bytes, and a length field followed by up to three bytes, the length
\* being right or wrong
ReadData ==
    { << >>, << 1 >>, << 1, 2 >>, << 1, 2, 3 >>, << 1, 2, 3, 4 >>,
      << 1, 2, 3, 4, 6 >> }
    \cup { << l, 0, 0, 0 >> \o b :
             l \in 0..3, b \in { << >>, << 7 >>, << 7, 8 >>, << 7, 8, 9 >> } }

\* replies to a Read request: without a result field, with a nonzero
\* result, with an AMS error code, and with result 0 followed by data
ReadReplyFrames ==
    { Frame(Me, "D1", Read, FlagsReply, 0, 0, i, FALSE, 0, << >>) : i \in Ids }
    \cup { Frame(Me, "D1", Read, FlagsReply, 0, e, i, TRUE, r, << >>) :
             i \in Ids, e \in {0, 1}, r \in {0, 1} }
    \cup { Frame(Me, "D1", Read, FlagsReply, 0, 0, i, TRUE, 0, d) :
             i \in Ids, d \in ReadData }

\* ADS frames (AMS/TCP command 0) of fewer than 38 bytes: the packet length
\* of the TCP header is below 32, so the frame ends inside the AMS header,
\* before the end of the invoke id; size is the number of bytes of the
\* frame, the 6 bytes of the TCP header included
ShortSizes == {6, 29, 30, 33, 34, 37}
ShortFrames == { [ams |-> 0, size |-> n] : n \in ShortSizes }

\* router frames (AMS/TCP command 1, 0x1000..0x1002) and an unknown command
OtherFrames == { [ams |-> a] : a \in {1, 4096, 4097, 4098, 77} }

\* frames that reach no caller and no channel
StrayFrames == ForeignFrames \cup SkewedFrames \cup OtherFrames

FrameSize(f) == AMS_HEADER_SIZE + PayloadLen(f.hasResult, f.data)

VARIABLES
    invoke_id,      \* ClientInner::invoke_id
    reply_map,      \* ClientInner::reply_map: invoke id -> slot of a caller
    read_timeout,   \* ClientInner::read_timeout: TRUE when Some(tmo)
    buf_pool,       \* number of buffers in the buf_send/buf_recv channel
    notif_q,        \* number of notifications in the notification channel
    notif_handles,  \* ClientInner::notif_handles
    restart_q,      \* number of events in the restart channel
    reader_pc,      \* position of the reader thread
    pc,             \* position of each caller thread
    cid,            \* invoke id of the caller's current call
    op,             \* the caller's current device operation
    cell,           \* delivery slot of the caller's current call
    ret,            \* result of the caller's last communicate
    out,            \* the caller's output buffer data_out[0] as a number
    data_out,       \* the caller's output buffers data_out, byte by byte
    retlen,         \* the length communicate computes for its Ok result
    session_id,     \* roboplc::comm::Client::session_id()
    mapping,        \* the fields of an AdsMapping and the position of its user
    shutdown,       \* Client::shutdown: position, handles taken, deletes issued
    got,            \* restart events each subscriber has received
    reader_session, \* Reader::run: session_id of the current socket, 0 before
    device,         \* a Device made by Client::device and its last request
    requests,       \* the WriteReadRequests of a sum-up call
    notification,   \* a buffer given to Notification::new and its result
    message,        \* a udp::Message being built, sent and parsed
    reply           \* a reply given to the validation of communicate

vars == << invoke_id, reply_map, read_timeout, buf_pool, notif_q,
           notif_handles, restart_q, reader_pc, pc, cid, op, cell, ret, out,
           data_out, retlen, session_id, mapping, shutdown, got,
           reader_session, device, requests, notification, message,
           reply >>

\* the output buffers and the computed length of the callers
bufVars == << data_out, retlen >>

\* the session manager, the mapping layer, shutdown and the subscribers
funVars == << device, requests, notification, message, reply >>

envVars == << session_id, mapping, shutdown, got, reader_session, funVars >>

\* the state of the client, its reader and its callers
clientVars ==
    << invoke_id, reply_map, read_timeout, buf_pool, notif_q, notif_handles,
       restart_q, reader_pc, pc, cid, op, cell, ret, out, bufVars,
       session_id, mapping, shutdown, got, reader_session >>

callerVars == << pc, cid, op, cell, ret, out >>

\* a call: the entry point, the ADS command, the target device, the handle
\* argument of a delete and the lengths of the output buffers data_out
Op(kind, k, t, h) ==
    [kind |-> kind, cmd |-> k, target |-> t, handle |-> h,
     dataOut |-> IF k = AddNotification THEN << 4 >> ELSE << >>]

NoOp == Op("none", 0, Me, 0)

\* Client::communicate called directly with a command of K
RawOps(K) == { Op("communicate", k, t, 0) : k \in K, t \in Targets }

\* Device::add_notification and Device::delete_notification(h)
AddOps == { Op("add_notification", AddNotification, t, 0) : t \in Targets }
DeleteOps ==
    { Op("delete_notification", DeleteNotification, t, h) :
        t \in Targets, h \in Handles }
DeviceOps == AddOps \cup DeleteOps

\* Client::communicate called with a Read command and the output buffers of
\* the lengths lens
OpOut(kind, lens, t) ==
    [kind |-> kind, cmd |-> Read, target |-> t, handle |-> 0, dataOut |-> lens]

\* Client::communicate called directly with output buffers of the lengths
\* lens, and Device::read(group, offset, data) with a buffer of n bytes,
\* which passes the buffers [read_len, data]
ReadOp(n, t) == OpOut("read", << 4, n >>, t)

\* Client::communicate called directly with a Write command and input
\* buffers of n bytes in total
OpIn(n, t) ==
    [kind |-> "communicate", cmd |-> Write, target |-> t, handle |-> 0,
     dataOut |-> << >>, dataIn |-> n]

\* the byte a caller's own buffer holds before the call
Fill == 5

\* the output buffers at the entry of communicate: a length or handle field
\* made with U32::new(0) is zero, a buffer of the caller holds its old bytes
Blank(o) ==
    [j \in 1..Len(o.dataOut) |->
        [i \in 1..o.dataOut[j] |->
            IF o.kind = "communicate" \/ (j > 1 /\ o.kind = "read")
            THEN Fill ELSE 0]]

\* no Device made, no sum-up call, no buffer parsed, no message built
NoDevice == [pc |-> "none"]
NoRequests == [pc |-> "none"]
NoNotification == [pc |-> "none"]
NoMessage == [pc |-> "none"]
NoReply == [pc |-> "none"]

\* the subscribers that hold a receiver of the restart beacon
Subscribers == {"s1", "s2"}

\* AdsMapping::new: no handle (0 stands for None), session id 0; the user of
\* the mapping is outside a call
NewMapping ==
    [pc |-> "idle", seen |-> 0, handle |-> 0, session_id |-> 0,
     fresh |-> FALSE, used |-> 0, res |-> "none"]

\* no shutdown is running
NoShutdown ==
    [pc |-> "idle", taken |-> {}, handles |-> {}, issued |-> << >>,
     failed |-> 0]

Init ==
    /\ invoke_id = 0
    /\ reply_map = [i \in Ids |-> NoEntry]
    /\ read_timeout \in BOOLEAN
    /\ buf_pool = 0
    /\ notif_q = 0
    /\ notif_handles = {}
    /\ restart_q = 0
    /\ reader_pc = "recv"
    /\ pc = [c \in Callers |-> "idle"]
    /\ cid = [c \in Callers |-> 0]
    /\ op = [c \in Callers |-> NoOp]
    /\ cell = [c \in Callers |-> NoFrame]
    /\ ret = [c \in Callers |-> "none"]
    /\ out = [c \in Callers |-> 0]
    /\ data_out = [c \in Callers |-> << >>]
    /\ retlen = [c \in Callers |-> 0]
    /\ session_id = 1
    /\ mapping = NewMapping
    /\ shutdown = NoShutdown
    /\ got = [s \in Subscribers |-> 0]
    /\ reader_session = 0
    /\ device = NoDevice
    /\ requests = NoRequests
    /\ notification = NoNotification
    /\ message = NoMessage
    /\ reply = NoReply

(***************************************************************************)
(* ClientInner::communicate, one action per step between two accesses to   *)
(* shared state.  The positions of a caller are                            *)
(*   idle/done  not in a call                                              *)
(*   insert     invoke id taken, request built, slot not yet registered    *)
(*   write      slot registered, request not yet written                   *)
(*   wait       request written, waiting on the slot                       *)
(*   tmo        the wait on the slot failed, entry not yet removed         *)
(*   recycle    reply validated and copied, buffer not yet sent back       *)
(*   track      communicate returned Ok, handle set not yet updated        *)
(***************************************************************************)

\* the slot of a call that has returned stays in the registry without owner
Release(map, c) == [i \in Ids |-> IF map[i] = c THEN Orphan ELSE map[i]]

\* a call of ops enters communicate: the invoke id is taken with fetch_add,
\* the header and the request are built
Enter(c, ops) ==
    /\ pc[c] \in {"idle", "done"}
    /\ \E o \in ops :
         /\ op' = [op EXCEPT ![c] = o]
         /\ data_out' = [data_out EXCEPT ![c] = Blank(o)]
    /\ retlen' = [retlen EXCEPT ![c] = 0]
    /\ cid' = [cid EXCEPT ![c] = invoke_id]
    /\ invoke_id' = (invoke_id + 1) % IdMod
    /\ cell' = [cell EXCEPT ![c] = NoFrame]
    /\ ret' = [ret EXCEPT ![c] = "none"]
    /\ out' = [out EXCEPT ![c] = 0]
    /\ pc' = [pc EXCEPT ![c] = "insert"]
    /\ UNCHANGED << reply_map, read_timeout, buf_pool, notif_q, notif_handles,
                    restart_q, reader_pc >>

\* a caller thread calls communicate or a device operation
Begin(c, ops) == Enter(c, ops) /\ UNCHANGED envVars

\* the largest value of a length field of the header
LenMax == 2 ^ LenBits - 1

\* a conversion that looks at the data length only
FitsLength_DataOnly(n) == n <= LenMax

\* ads_data_len.try_into() and u32::try_from(data_in_len) both succeed
FitsLength(n) ==
    /\ AMS_HEADER_SIZE - TCP_HEADER_SIZE + n <= LenMax
    /\ n <= LenMax

\* communicate is called with input buffers whose length is part of the
\* operation: the invoke id is taken, then the header is built, and a
\* length that does not fit returns InvalidData through the ? operator
BeginSized(c, ops) ==
    \E o \in ops :
        IF FitsLength(o.dataIn)
        THEN Enter(c, {o}) /\ UNCHANGED envVars
        ELSE /\ pc[c] \in {"idle", "done"}
             /\ invoke_id' = (invoke_id + 1) % IdMod
             /\ op' = [op EXCEPT ![c] = o]
             /\ ret' = [ret EXCEPT ![c] = "InvalidData"]
             /\ pc' = [pc EXCEPT ![c] = "done"]
             /\ cid' = [cid EXCEPT ![c] = 0]
             /\ cell' = [cell EXCEPT ![c] = NoFrame]
             /\ out' = [out EXCEPT ![c] = 0]
             /\ data_out' = [data_out EXCEPT ![c] = << >>]
             /\ retlen' = [retlen EXCEPT ![c] = 0]
             /\ UNCHANGED << reply_map, read_timeout, buf_pool, notif_q,
                             notif_handles, restart_q, reader_pc >>
             /\ UNCHANGED envVars

\* a registry that the call leaves as it is
InsertEntry_Skip(map, i, c) == map

\* self.reply_map.lock().insert(invoke_id, cell.clone())
InsertEntry(map, i, c) == [map EXCEPT ![i] = c]

Insert(c) ==
    /\ pc[c] = "insert"
    /\ reply_map' = InsertEntry(reply_map, cid[c], c)
    /\ pc' = [pc EXCEPT ![c] = "write"]
    /\ UNCHANGED << invoke_id, read_timeout, buf_pool, notif_q, notif_handles,
                    restart_q, reader_pc, cid, op, cell, ret, out >>
    /\ UNCHANGED << bufVars, envVars >>

\* self.client.write(&request)? succeeds
WriteOk(c) ==
    /\ pc[c] = "write"
    /\ pc' = [pc EXCEPT ![c] = "wait"]
    /\ UNCHANGED << invoke_id, reply_map, read_timeout, buf_pool, notif_q,
                    notif_handles, restart_q, reader_pc, cid, op, cell, ret,
                    out >>
    /\ UNCHANGED << bufVars, envVars >>

\* the registry after a failed write: the ? operator returns at once
AfterWriteError(map, c) == Release(map, c)

\* self.client.write(&request)? fails
WriteFail(c) ==
    /\ pc[c] = "write"
    /\ reply_map' = AfterWriteError(reply_map, c)
    /\ ret' = [ret EXCEPT ![c] = "Io_write"]
    /\ pc' = [pc EXCEPT ![c] = "done"]
    /\ cid' = [cid EXCEPT ![c] = 0]
    /\ cell' = [cell EXCEPT ![c] = NoFrame]
    /\ UNCHANGED << invoke_id, read_timeout, buf_pool, notif_q, notif_handles,
                    restart_q, reader_pc, op, out >>
    /\ UNCHANGED << bufVars, envVars >>

\* cell.get_timeout(tmo) returns Err: the timeout elapsed with the slot empty
WaitTimeout(c) ==
    /\ pc[c] = "wait"
    /\ read_timeout
    /\ cell[c] = NoFrame
    /\ pc' = [pc EXCEPT ![c] = "tmo"]
    /\ UNCHANGED << invoke_id, reply_map, read_timeout, buf_pool, notif_q,
                    notif_handles, restart_q, reader_pc, cid, op, cell, ret,
                    out >>
    /\ UNCHANGED << bufVars, envVars >>

\* a removal that leaves the entry in place
RemoveEntry_Keep(map, i) == map

RemoveEntry_Others(map, i) ==
    [j \in DOMAIN map |-> IF j = i THEN map[j] ELSE NoEntry]

\* self.reply_map.lock().remove(&invoke_id), in map_ch_err and in the reader
RemoveEntry(map, i) == [map EXCEPT ![i] = NoEntry]

\* map_ch_err: remove the entry and return Err(Error::io(e))
TimeoutRemove(c) ==
    /\ pc[c] = "tmo"
    /\ reply_map' = Release(RemoveEntry(reply_map, cid[c]), c)
    /\ ret' = [ret EXCEPT ![c] = "Io_timeout"]
    /\ pc' = [pc EXCEPT ![c] = "done"]
    /\ cid' = [cid EXCEPT ![c] = 0]
    /\ cell' = [cell EXCEPT ![c] = NoFrame]
    /\ UNCHANGED << invoke_id, read_timeout, buf_pool, notif_q, notif_handles,
                    restart_q, reader_pc, op, out >>
    /\ UNCHANGED << bufVars, envVars >>

\* the result field read from the reply: 0 when the reply has no payload
ResultOf(f) == IF FrameSize(f) >= AMS_HEADER_SIZE + ResultSize THEN f.result ELSE 0

\* a validation that does not look at the state flags
Validate_NoFlags(f, i, o) ==
    IF f.src # o.target THEN "Io_src"
    ELSE IF f.cmd # o.cmd THEN "Io_cmd"
    ELSE IF f.id # i THEN "Io_id"
    ELSE IF f.err # 0 THEN "Ads_err"
    ELSE IF f.hasResult /\ f.result # 0 THEN "Ads_result"
    ELSE IF o.dataOut = << >> THEN "Ok"
    ELSE IF f.dlen < o.dataOut[1] + ResultSize THEN "Io_less"
    ELSE "Ok"

\* a validation that does not compare the source address of the reply
Validate_NoSrc(f, i, o) ==
    IF f.cmd # o.cmd THEN "Io_cmd"
    ELSE IF f.flags # FlagsReply THEN "Io_flags"
    ELSE IF f.id # i THEN "Io_id"
    ELSE IF f.err # 0 THEN "Ads_err"
    ELSE IF f.hasResult /\ f.result # 0 THEN "Ads_result"
    ELSE IF o.dataOut = << >> THEN "Ok"
    ELSE IF f.dlen < o.dataOut[1] + ResultSize THEN "Io_less"
    ELSE "Ok"

\* a validation that accepts any data length
Validate_AnyLength(f, i, o) ==
    IF f.src # o.target THEN "Io_src"
    ELSE IF f.cmd # o.cmd THEN "Io_cmd"
    ELSE IF f.flags # FlagsReply THEN "Io_flags"
    ELSE IF f.id # i THEN "Io_id"
    ELSE IF f.err # 0 THEN "Ads_err"
    ELSE IF f.hasResult /\ f.result # 0 THEN "Ads_result"
    ELSE "Ok"

\* validation of the reply f by the call with invoke id i and operation o,
\* in the order of the source
\* a validation that looks at the result field before the AMS error code
Validate_ResultFirst(f, i, o) ==
    IF f.src # o.target THEN "Io_src"
    ELSE IF FrameSize(f) < AMS_HEADER_SIZE THEN "Io_short"
    ELSE IF f.cmd # o.cmd THEN "Io_cmd"
    ELSE IF f.flags # FlagsReply THEN "Io_flags"
    ELSE IF f.id # i THEN "Io_id"
    ELSE IF ResultOf(f) # 0 THEN "Ads_result"
    ELSE IF f.err # 0 THEN "Ads_err"
    ELSE IF o.dataOut = << >> THEN "Ok"
    ELSE IF f.dlen < o.dataOut[1] + ResultSize THEN "Io_less"
    ELSE "Ok"

Validate(f, i, o) ==
    IF f.src # o.target THEN "Io_src"
    ELSE IF FrameSize(f) < AMS_HEADER_SIZE THEN "Io_short"
    ELSE IF f.cmd # o.cmd THEN "Io_cmd"
    ELSE IF f.flags # FlagsReply THEN "Io_flags"
    ELSE IF f.id # i THEN "Io_id"
    ELSE IF f.err # 0 THEN "Ads_err"
    ELSE IF ResultOf(f) # 0 THEN "Ads_result"
    ELSE IF o.dataOut = << >> THEN "Ok"
    ELSE IF f.dlen < o.dataOut[1] + ResultSize THEN "Io_less"
    ELSE "Ok"

\* what the copy loop leaves in data_out[0], read as a little-endian number
CopyOut(f, o) ==
    IF o.dataOut = << >> THEN 0
    ELSE LET rest == f.dlen - ResultSize
             n == IF o.dataOut[1] < rest THEN o.dataOut[1] ELSE rest
         IN  LE32(Take(f.data, n))

\* the smaller of two numbers
Min(a, b) == IF a < b THEN a ELSE b

\* a copy loop that writes every buffer from the start of the data
RECURSIVE CopyLoop_NoOffset(_, _)
CopyLoop_NoOffset(rest, bufs) ==
    IF bufs = << >> THEN << >>
    ELSE LET buf == Head(bufs)
             n == Min(Len(buf), Len(rest))
         IN  << Take(rest, n) \o Drop(buf, n) >>
                 \o CopyLoop_NoOffset(rest, Tail(bufs))

\* the copy loop: rest are the bytes not yet copied, bufs the buffers not
\* yet visited; each buffer takes min(buf.len(), rest_len) bytes and the
\* loop stops when nothing is left
RECURSIVE CopyLoop(_, _)
CopyLoop(rest, bufs) ==
    IF bufs = << >> THEN << >>
    ELSE LET buf == Head(bufs)
             n == Min(Len(buf), Len(rest))
             filled == Take(rest, n) \o Drop(buf, n)
         IN  IF Len(rest) - n = 0
             THEN << filled >> \o Tail(bufs)
             ELSE << filled >> \o CopyLoop(Drop(rest, n), Tail(bufs))

\* the data length communicate returns: 0 without output buffers, else the
\* data length of the header without the result field
DataLen(f, o) == IF o.dataOut = << >> THEN 0 ELSE f.dlen - ResultSize

\* the output buffers after the copy loop over the data of the reply f
Distribute(f, bufs) ==
    IF bufs = << >> THEN bufs
    ELSE CopyLoop(Take(f.data, f.dlen - ResultSize), bufs)

\* cell.get / cell.get_timeout returns the reply, which is validated and
\* copied to the output buffers; on a validation error the call returns
\* and the reply buffer is dropped
WaitGot(c) ==
    /\ pc[c] = "wait"
    /\ cell[c] # NoFrame
    /\ LET v == Validate(cell[c], cid[c], op[c]) IN
         IF v = "Ok"
         THEN /\ out' = [out EXCEPT ![c] = CopyOut(cell[c], op[c])]
              /\ data_out' = [data_out EXCEPT ![c] =
                                Distribute(cell[c], data_out[c])]
              /\ retlen' = [retlen EXCEPT ![c] = DataLen(cell[c], op[c])]
              /\ pc' = [pc EXCEPT ![c] = "recycle"]
              /\ UNCHANGED << ret, reply_map, cid, cell >>
         ELSE /\ ret' = [ret EXCEPT ![c] = v]
              /\ pc' = [pc EXCEPT ![c] = "done"]
              /\ reply_map' = Release(reply_map, c)
              /\ cid' = [cid EXCEPT ![c] = 0]
              /\ cell' = [cell EXCEPT ![c] = NoFrame]
              /\ UNCHANGED << out, data_out, retlen >>
    /\ UNCHANGED << invoke_id, read_timeout, buf_pool, notif_q, notif_handles,
                    restart_q, reader_pc, op >>
    /\ UNCHANGED envVars

\* self.buf_send.send(AdsBuffer(reply)): the send waits for room in the pool
PoolHasRoom(n) == n < MAX_BUF_QUEUE

\* the buffer goes back to the pool and communicate returns Ok
Recycle(c) ==
    /\ pc[c] = "recycle"
    /\ PoolHasRoom(buf_pool)
    /\ buf_pool' = buf_pool + 1
    /\ ret' = [ret EXCEPT ![c] = "Ok"]
    /\ reply_map' = Release(reply_map, c)
    /\ pc' = [pc EXCEPT ![c] =
                IF op[c].kind \in {"communicate", "read"}
                THEN "done" ELSE "track"]
    /\ cid' = [cid EXCEPT ![c] = 0]
    /\ cell' = [cell EXCEPT ![c] = NoFrame]
    /\ UNCHANGED << invoke_id, read_timeout, notif_q, notif_handles,
                    restart_q, reader_pc, op, out >>
    /\ UNCHANGED << bufVars, envVars >>

\* a handle set that records the handle argument instead of the returned one
Tracked_Argument(set, o, h) ==
    IF o.cmd = AddNotification
    THEN set \cup { << o.target, o.handle >> }
    ELSE set

\* a handle set that a successful delete_notification empties
Tracked_DropAll(set, o, h) ==
    IF o.cmd = AddNotification
    THEN set \cup { << o.target, h >> }
    ELSE {}

\* the handle set after a successful add_notification / delete_notification
Tracked(set, o, h) ==
    IF o.cmd = AddNotification
    THEN set \cup { << o.target, h >> }
    ELSE set \ { << o.target, o.handle >> }

\* notif_handles.lock().insert / remove, then the device operation returns
Track(c) ==
    /\ pc[c] = "track"
    /\ notif_handles' = Tracked(notif_handles, op[c], out[c])
    /\ pc' = [pc EXCEPT ![c] = "done"]
    /\ UNCHANGED << invoke_id, reply_map, read_timeout, buf_pool, notif_q,
                    restart_q, reader_pc, cid, op, cell, ret, out >>
    /\ UNCHANGED << bufVars, envVars >>

(***************************************************************************)
(* Client::purge and Client::shutdown.  shutdown takes the whole handle    *)
(* set under the lock and then calls delete_notification for each entry,   *)
(* ignoring the result.  Positions of shutdown:                            *)
(*   idle      not called                                                  *)
(*   loop      between two iterations of the for loop                      *)
(*   call      inside delete_notification                                  *)
(*   returned  shutdown has returned                                       *)
(* The fields taken, issued and failed record what the call took from the  *)
(* set, the delete requests it made and how many of them failed.           *)
(***************************************************************************)

\* mem::take(&mut *self.inner.notif_handles.lock())
\* a purge that forgets one handle only
Purge_One ==
    /\ notif_handles' = IF notif_handles = {} THEN {}
                        ELSE notif_handles \ { CHOOSE e \in notif_handles : TRUE }
    /\ UNCHANGED << invoke_id, reply_map, read_timeout, buf_pool, notif_q,
                    restart_q, reader_pc, pc, cid, op, cell, ret, out >>
    /\ UNCHANGED << bufVars, envVars >>

Purge ==
    /\ notif_handles' = {}
    /\ UNCHANGED << invoke_id, reply_map, read_timeout, buf_pool, notif_q,
                    restart_q, reader_pc, pc, cid, op, cell, ret, out >>
    /\ UNCHANGED << bufVars, envVars >>

\* the order of AmsAddr in the BTreeSet
AddrRank(a) == IF a = "D1" THEN 1 ELSE 2

\* the order of the entries (AmsAddr, Handle) in the BTreeSet
Before(e1, e2) ==
    \/ AddrRank(e1[1]) < AddrRank(e2[1])
    \/ e1[1] = e2[1] /\ e1[2] <= e2[2]

\* the entry the iteration over the taken set yields next
First(S) == CHOOSE e \in S : \A e2 \in S : Before(e, e2)

\* let handles = mem::take(&mut *self.inner.notif_handles.lock())
ShutdownTake(c) ==
    /\ shutdown.pc \in {"idle", "returned"}
    /\ pc[c] \in {"idle", "done"}
    /\ shutdown' = [pc |-> "loop", taken |-> notif_handles,
                    handles |-> notif_handles, issued |-> << >>,
                    failed |-> 0]
    /\ notif_handles' = {}
    /\ UNCHANGED << invoke_id, reply_map, read_timeout, buf_pool, notif_q,
                    restart_q, reader_pc, pc, cid, op, cell, ret, out >>
    /\ UNCHANGED << bufVars, session_id, mapping, got, reader_session,
                    funVars >>

\* self.device(addr).delete_notification(handle) for the next entry
ShutdownIssue(c) ==
    /\ shutdown.pc = "loop"
    /\ shutdown.handles # {}
    /\ LET e == First(shutdown.handles) IN
         /\ Enter(c, { Op("delete_notification", DeleteNotification,
                          e[1], e[2]) })
         /\ shutdown' = [shutdown EXCEPT
                            !.pc = "call",
                            !.handles = shutdown.handles \ {e},
                            !.issued = Append(shutdown.issued, e)]
    /\ UNCHANGED << session_id, mapping, got, reader_session, funVars >>

\* a shutdown that gives up at the first delete that fails
AfterDelete_StopOnError(r) == IF r = "Ok" THEN "loop" ELSE "returned"

\* where shutdown goes on after delete_notification returned r: let _r = ...
AfterDelete(r) == "loop"

\* delete_notification has returned to the loop of shutdown
ShutdownReturn(c) ==
    /\ shutdown.pc = "call"
    /\ pc[c] = "done"
    /\ shutdown' = [shutdown EXCEPT
                        !.pc = AfterDelete(ret[c]),
                        !.failed = shutdown.failed +
                                     (IF ret[c] = "Ok" THEN 0 ELSE 1)]
    /\ UNCHANGED << invoke_id, reply_map, read_timeout, buf_pool, notif_q,
                    notif_handles, restart_q, reader_pc, pc, cid, op, cell,
                    ret, out >>
    /\ UNCHANGED << bufVars, session_id, mapping, got, reader_session,
                    funVars >>

\* the for loop is over and shutdown returns
ShutdownFinish ==
    /\ shutdown.pc = "loop"
    /\ shutdown.handles = {}
    /\ shutdown' = [shutdown EXCEPT !.pc = "returned"]
    /\ UNCHANGED << invoke_id, reply_map, read_timeout, buf_pool, notif_q,
                    notif_handles, restart_q, reader_pc, pc, cid, op, cell,
                    ret, out >>
    /\ UNCHANGED << bufVars, session_id, mapping, got, reader_session,
                    funVars >>

(***************************************************************************)
(* notif::Notification::new: the walk over the stamps and samples that     *)
(* follow the 4-byte length field.  ParseFail marks a read past the end    *)
(* (no byte is negative, so it is no remainder of a buffer).               *)
(***************************************************************************)
ParseFail == << 0 - 1 >>

\* a walk over the samples that takes every length as fitting
RECURSIVE ParseSamples_NoBound(_, _)
ParseSamples_NoBound(ptr, nsamples) ==
    IF nsamples = 0 THEN ptr
    ELSE IF Len(ptr) < 8 THEN ParseFail
    ELSE ParseSamples_NoBound(Drop(Drop(ptr, 8), LE32(SubSeq(ptr, 5, 8))),
                              nsamples - 1)

RECURSIVE ParseSamples(_, _)
ParseSamples(ptr, nsamples) ==
    IF nsamples = 0 THEN ptr
    ELSE IF Len(ptr) < 8 THEN ParseFail
    ELSE LET length == LE32(SubSeq(ptr, 5, 8))
             rest == Drop(ptr, 8)
         IN  IF Len(rest) >= length
             THEN ParseSamples(Drop(rest, length), nsamples - 1)
             ELSE ParseFail

RECURSIVE ParseStamps(_, _)
ParseStamps(ptr, nstamps) ==
    IF nstamps = 0 THEN ptr
    ELSE IF Len(ptr) < 12 THEN ParseFail
    ELSE LET rest == ParseSamples(Drop(ptr, 12), LE32(SubSeq(ptr, 9, 12)))
         IN  IF rest = ParseFail THEN ParseFail
             ELSE ParseStamps(rest, nstamps - 1)

\* TRUE when Notification::new accepts the frame
NotificationNew(f) ==
    /\ FrameSize(f) >= AMS_HEADER_SIZE + 8
    /\ ParseStamps(Drop(f.data, 4), LE32(Take(f.data, 4))) = << >>

(***************************************************************************)
(* The reader thread: Reader::run and Reader::run_inner.  Positions:       *)
(*   recv      waiting for a reader socket on reader_rx                    *)
(*   take      at the top of the per-socket loop                           *)
(*   read      holding a buffer, blocked in read_exact                     *)
(*   nsend     sending a parsed notification to the notification channel   *)
(*   exited    run_inner has returned                                      *)
(*   panicked  the thread has panicked                                     *)
(***************************************************************************)

\* the client's own address, against which buf[6..14] is compared
AddressedToUs_Any(f) == TRUE

AddressedToUs(f) == f.dest = Me

\* a reader that takes the registry key from the wrong place
ReplyKey_Shifted(f) == (f.id + 1) % IdMod

\* the registry key under which the reader looks up a reply frame
ReplyKey(f) == f.id

\* what run_inner does with a frame read from the socket
KnownAmsCommand_Any(a) == TRUE

\* the AMS/TCP commands other than 0 that run_inner passes over
KnownAmsCommand(a) == a \in {1, 4096, 4097, 4098}

ReaderOutcome(f) ==
    IF f.ams # 0
    THEN IF KnownAmsCommand(f.ams) THEN "skip" ELSE "exit"
    ELSE IF f.dlen # FrameSize(f) - AMS_HEADER_SIZE THEN "exit"
    ELSE IF ~ AddressedToUs(f) THEN "skip"
    ELSE IF f.cmd # Notification THEN "reply"
    ELSE IF FrameSize(f) < AMS_HEADER_SIZE + 4 THEN "panic"
    ELSE IF \/ f.flags # FlagsRequest
            \/ f.err # 0
            \/ f.result # f.dlen - 4
            \/ f.result < 4
         THEN "skip"
    ELSE IF NotificationNew(f) THEN "notify" ELSE "skip"

\* the frame ends before the end of the AMS header
IsShort(f) == "size" \in DOMAIN f

\* what run_inner does with an ADS frame of fewer than 38 bytes: below 30
\* bytes the slice buf[26..30] is out of range and the reader panics; from
\* there on packet_length + TCP_HEADER_SIZE - AMS_HEADER_SIZE is negative:
\* the subtraction panics when overflow checks are compiled in, and else
\* wraps, so that the length is found inconsistent and run_inner returns,
\* or, should the wrapped value equal the length field, the read of the
\* invoke id at buf[34..] panics or fails and run_inner returns
ShortOutcomes(f) ==
    IF f.size < 30 THEN {"panic"} ELSE {"panic", "exit"}

\* the outcomes run_inner can have with the frame f
ReaderOutcomes(f) ==
    IF f.ams = 0 /\ IsShort(f) THEN ShortOutcomes(f) ELSE { ReaderOutcome(f) }

\* the caller whose slot receives the frame f, given the registry: "nobody"
\* when the frame is no reply, has no entry, or its call has returned
Recipient(f, map) ==
    IF ReaderOutcome(f) = "reply" /\ map[ReplyKey(f)] \in Callers
    THEN map[ReplyKey(f)]
    ELSE "nobody"

\* a restart channel that keeps the undelivered event beside the new one
PostSingle_Keep(q) == IF q < 2 THEN q + 1 ELSE q

\* restart_tx.send(RestartEvent {}) with DeliveryPolicy::Single: the pending
\* event, if any, is removed and the new one is pushed
PostSingle(q) == 1

\* Reader::run: a reader socket arrives and the restart event is posted
ReaderPost ==
    /\ reader_pc = "recv"
    /\ restart_q' = PostSingle(restart_q)
    /\ reader_pc' = "take"
    /\ UNCHANGED << invoke_id, reply_map, read_timeout, buf_pool, notif_q,
                    notif_handles, pc, cid, op, cell, ret, out >>
    /\ UNCHANGED bufVars

\* the reader gets a socket; the session id it reads is not followed
ReaderAcquire == ReaderPost /\ UNCHANGED envVars

\* the reader gets a socket and keeps the session id it has read
ReaderSpawn ==
    /\ ReaderPost
    /\ reader_session' = session_id
    /\ UNCHANGED << session_id, mapping, shutdown, got, funVars >>

\* buf_recv.try_recv().unwrap_or_else(fresh buffer)
ReaderTake ==
    /\ reader_pc = "take"
    /\ buf_pool' = IF buf_pool > 0 THEN buf_pool - 1 ELSE 0
    /\ reader_pc' = "read"
    /\ UNCHANGED << invoke_id, reply_map, read_timeout, notif_q,
                    notif_handles, restart_q, pc, cid, op, cell, ret, out >>
    /\ UNCHANGED << bufVars, envVars >>

\* read_exact fails: the socket was closed or broke
ReaderReadError ==
    /\ reader_pc = "read"
    /\ reader_pc' = "exited"
    /\ UNCHANGED << invoke_id, reply_map, read_timeout, buf_pool, notif_q,
                    notif_handles, restart_q, pc, cid, op, cell, ret, out >>
    /\ UNCHANGED << bufVars, envVars >>

\* a frame of FS is read from the socket and dispatched
ReaderFrame(FS) ==
    /\ reader_pc = "read"
    /\ \E f \in FS : \E o \in ReaderOutcomes(f) :
         /\ reader_pc' = CASE o = "exit" -> "exited"
                           [] o = "panic" -> "panicked"
                           [] o = "notify" -> "nsend"
                           [] OTHER -> "take"
         /\ IF o = "reply" /\ reply_map[ReplyKey(f)] # NoEntry
            THEN /\ reply_map' = RemoveEntry(reply_map, ReplyKey(f))
                 /\ cell' = IF Recipient(f, reply_map) \in Callers
                            THEN [cell EXCEPT ![Recipient(f, reply_map)] = f]
                            ELSE cell
            ELSE UNCHANGED << reply_map, cell >>
    /\ UNCHANGED << invoke_id, read_timeout, buf_pool, notif_q,
                    notif_handles, restart_q, pc, cid, op, ret, out >>
    /\ UNCHANGED << bufVars, envVars >>

\* self.notif_send.send(notif): the send waits for room in the channel
NotifHasRoom(n) == n < MAX_NOTIFICATION_QUEUE

ReaderNotifSend ==
    /\ reader_pc = "nsend"
    /\ NotifHasRoom(notif_q)
    /\ notif_q' = notif_q + 1
    /\ reader_pc' = "take"
    /\ UNCHANGED << invoke_id, reply_map, read_timeout, buf_pool,
                    notif_handles, restart_q, pc, cid, op, cell, ret, out >>
    /\ UNCHANGED << bufVars, envVars >>

\* Reader::run after run_inner: ask for a reconnect, wait for the next socket
ReaderReconnect ==
    /\ reader_pc = "exited"
    /\ reader_pc' = "recv"
    /\ UNCHANGED << invoke_id, reply_map, read_timeout, buf_pool, notif_q,
                    notif_handles, restart_q, pc, cid, op, cell, ret, out >>
    /\ UNCHANGED << bufVars, envVars >>

\* a consumer takes a notification from Client::get_notification_channel
NotifRecv ==
    /\ notif_q > 0
    /\ notif_q' = notif_q - 1
    /\ UNCHANGED << invoke_id, reply_map, read_timeout, buf_pool,
                    notif_handles, restart_q, reader_pc, pc, cid, op, cell,
                    ret, out >>
    /\ UNCHANGED << bufVars, envVars >>

\* the session manager connects again: roboplc::comm::Client::reconnect
NextSession(n) == n + 1

\* a reader that asks for a reconnect whatever the session id is
StillSame_Always(seen, now) == TRUE

\* session_id == self.client.session_id()
StillSame(seen, now) == seen = now

\* Reader::run after run_inner, with the session id followed: the reader asks
\* for a reconnect unless the session has changed already
ReaderRejoin ==
    /\ reader_pc = "exited"
    /\ reader_pc' = "recv"
    /\ IF StillSame(reader_session, session_id)
       THEN /\ session_id < MaxSession
            /\ session_id' = NextSession(session_id)
       ELSE UNCHANGED session_id
    /\ UNCHANGED << invoke_id, reply_map, read_timeout, buf_pool, notif_q,
                    notif_handles, restart_q, pc, cid, op, cell, ret, out >>
    /\ UNCHANGED << bufVars, mapping, shutdown, got, reader_session, funVars >>

\* the session manager connects again on its own, after a failed write or
\* read of a caller: the session id changes under the reader
SessionChange ==
    /\ session_id < MaxSession
    /\ session_id' = NextSession(session_id)
    /\ UNCHANGED << invoke_id, reply_map, read_timeout, buf_pool, notif_q,
                    notif_handles, restart_q, reader_pc, pc, cid, op, cell,
                    ret, out >>
    /\ UNCHANGED << bufVars, mapping, shutdown, got, reader_session, funVars >>

(***************************************************************************)
(* AdsMapping::read and AdsMapping::write.  Positions of the user of the   *)
(* mapping:                                                                *)
(*   idle     outside a call                                               *)
(*   resolve  in get_handle, inside Handle::new                            *)
(*   io       get_handle has returned, inside Device::read / write         *)
(* seen is the session id get_handle has read, fresh tells that this call  *)
(* resolved the symbol, used is the handle given to the device call.       *)
(***************************************************************************)

\* a cache that is renewed only when it holds no handle
NeedsHandle_OnlyNone(m, sid) == m.handle = 0

\* self.handle.is_none() || self.session_id != session_id
NeedsHandle(m, sid) == m.handle = 0 \/ m.session_id # sid

\* the handle the server gives for the symbol in the session sid: a token
\* of that session
HandleIn(sid) == sid

\* read / write is called: get_handle reads the session id and decides
MapStart ==
    /\ mapping.pc = "idle"
    /\ mapping' = [mapping EXCEPT
                      !.seen = session_id,
                      !.fresh = FALSE,
                      !.res = "none",
                      !.pc = IF NeedsHandle(mapping, session_id)
                             THEN "resolve" ELSE "io"]
    /\ UNCHANGED << invoke_id, reply_map, read_timeout, buf_pool, notif_q,
                    notif_handles, restart_q, reader_pc, pc, cid, op, cell,
                    ret, out >>
    /\ UNCHANGED << bufVars, session_id, shutdown, got, reader_session,
                    funVars >>

\* Handle::new succeeds: the handle and the session id read are cached
MapResolveOk ==
    /\ mapping.pc = "resolve"
    /\ mapping' = [mapping EXCEPT
                      !.handle = HandleIn(session_id),
                      !.session_id = mapping.seen,
                      !.fresh = TRUE,
                      !.pc = "io"]
    /\ UNCHANGED << invoke_id, reply_map, read_timeout, buf_pool, notif_q,
                    notif_handles, restart_q, reader_pc, pc, cid, op, cell,
                    ret, out >>
    /\ UNCHANGED << bufVars, session_id, shutdown, got, reader_session,
                    funVars >>

\* Handle::new fails: the call returns the error, the cache is as before
\* a failed Handle::new that still stores the session id read
MapResolveErr_Cache ==
    /\ mapping.pc = "resolve"
    /\ mapping' = [mapping EXCEPT !.res = "Err", !.pc = "idle",
                          !.session_id = mapping.seen]
    /\ UNCHANGED << invoke_id, reply_map, read_timeout, buf_pool, notif_q,
                    notif_handles, restart_q, reader_pc, pc, cid, op, cell,
                    ret, out >>
    /\ UNCHANGED << bufVars, session_id, shutdown, got, reader_session,
                    funVars >>

MapResolveErr ==
    /\ mapping.pc = "resolve"
    /\ mapping' = [mapping EXCEPT !.res = "Err", !.pc = "idle"]
    /\ UNCHANGED << invoke_id, reply_map, read_timeout, buf_pool, notif_q,
                    notif_handles, restart_q, reader_pc, pc, cid, op, cell,
                    ret, out >>
    /\ UNCHANGED << bufVars, session_id, shutdown, got, reader_session,
                    funVars >>

\* Device::read / Device::write with the raw handle, and the call returns
MapIo ==
    /\ mapping.pc = "io"
    /\ \E r \in {"Ok", "Err"} :
         mapping' = [mapping EXCEPT
                       !.used = mapping.handle, !.res = r, !.pc = "idle"]
    /\ UNCHANGED << invoke_id, reply_map, read_timeout, buf_pool, notif_q,
                    notif_handles, restart_q, reader_pc, pc, cid, op, cell,
                    ret, out >>
    /\ UNCHANGED << bufVars, session_id, shutdown, got, reader_session,
                    funVars >>

\* the restart channel after one of its receivers has taken the event
Taken(q) == q - 1

\* the subscriber s takes the event from its clone of the receiver
\* returned by Reader::get_restart_event_receiver
RestartRecv(s) ==
    /\ restart_q > 0
    /\ got[s] < MaxGot
    /\ restart_q' = Taken(restart_q)
    /\ got' = [got EXCEPT ![s] = got[s] + 1]
    /\ UNCHANGED << invoke_id, reply_map, read_timeout, buf_pool, notif_q,
                    notif_handles, reader_pc, pc, cid, op, cell, ret, out >>
    /\ UNCHANGED << bufVars, session_id, mapping, shutdown, reader_session,
                    funVars >>

\* the steps of communicate after its entry
CommStep(c) ==
    \/ Insert(c)
    \/ WriteOk(c)
    \/ WriteFail(c)
    \/ WaitTimeout(c)
    \/ TimeoutRemove(c)
    \/ WaitGot(c)
    \/ Recycle(c)

\* the reader thread reading frames of FS
ReaderStep(FS) ==
    \/ ReaderAcquire
    \/ ReaderTake
    \/ ReaderReadError
    \/ ReaderFrame(FS)
    \/ ReaderReconnect

(***************************************************************************)
(* Spec: the caller threads call Client::communicate directly with a       *)
(* DeleteNotification command while the peer sends replies for any invoke  *)
(* id in any order, and frames that are not replies to the client.         *)
(***************************************************************************)
DeleteCalls == RawOps({DeleteNotification})
PeerFrames == SimpleReplyFrames \cup StrayFrames

Next ==
    \/ \E c \in Callers : Begin(c, DeleteCalls)
    \/ \E c \in Callers : CommStep(c)
    \/ ReaderStep(PeerFrames)

Spec == Init /\ [][Next]_vars

(***************************************************************************)
(* SpecVal: one caller calls Client::communicate with an AddNotification   *)
(* or DeleteNotification command and the peer answers with any combination *)
(* of the header fields and payloads that communicate validates.           *)
(***************************************************************************)
RawCalls == RawOps({AddNotification, DeleteNotification})
PeerFramesVal == ReplyFrames \cup StrayFrames

NextVal ==
    \/ Begin("t1", RawCalls)
    \/ CommStep("t1")
    \/ ReaderStep(PeerFramesVal)

SpecVal == Init /\ [][NextVal]_vars

(***************************************************************************)
(* SpecDev: one thread calls Device::add_notification while the other      *)
(* calls Device::delete_notification, on a connection that stays up and    *)
(* without a read timeout; the device answers with success and a handle,   *)
(* with success and no data, or with a nonzero result code.                *)
(***************************************************************************)
InitDev == Init /\ read_timeout = FALSE

NextDev ==
    \/ Begin("t1", AddOps)
    \/ Begin("t2", DeleteOps)
    \/ \E c \in Callers : Insert(c)
    \/ \E c \in Callers : WriteOk(c)
    \/ \E c \in Callers : WaitGot(c)
    \/ \E c \in Callers : Recycle(c)
    \/ \E c \in Callers : Track(c)
    \/ ReaderAcquire
    \/ ReaderTake
    \/ ReaderFrame(DeviceReplyFrames)

SpecDev == InitDev /\ [][NextDev]_vars

(***************************************************************************)
(* SpecBeacon: the reader goes through sockets, each socket of a new       *)
(* session, while subscribers read the restart channel.                    *)
(***************************************************************************)
NextBeacon ==
    \/ ReaderSpawn
    \/ ReaderTake
    \/ ReaderReadError
    \/ ReaderRejoin
    \/ \E s \in Subscribers : RestartRecv(s)

SpecBeacon == InitDev /\ [][NextBeacon]_vars

\* every subscriber that can take an event eventually takes one, and the
\* reader keeps running
FairnessBeacon ==
    /\ \A s \in Subscribers : WF_vars(RestartRecv(s))
    /\ WF_vars(ReaderSpawn)
    /\ WF_vars(ReaderTake)
    /\ WF_vars(ReaderRejoin)

SpecBeaconFair == SpecBeacon /\ FairnessBeacon

(***************************************************************************)
(* SpecSession: the reader takes sockets and loses them while the session  *)
(* manager also reconnects on its own.                                     *)
(***************************************************************************)
NextSessions ==
    \/ ReaderSpawn
    \/ ReaderTake
    \/ ReaderReadError
    \/ ReaderRejoin
    \/ SessionChange
    \/ \E s \in Subscribers : RestartRecv(s)

SpecSession == InitDev /\ [][NextSessions]_vars

(***************************************************************************)
(* SpecMap: a user reads and writes through an AdsMapping while the        *)
(* session of the connection changes.                                      *)
(***************************************************************************)
NextMap ==
    \/ MapStart
    \/ MapResolveOk
    \/ MapResolveErr
    \/ MapIo
    \/ SessionChange

SpecMap == InitDev /\ [][NextMap]_vars

(***************************************************************************)
(* SpecCopy: one caller calls communicate with several output buffers or   *)
(* Device::read with a two-byte buffer, and the device answers Read        *)
(* requests with data of any length.                                       *)
(***************************************************************************)
CopyCalls ==
    { OpOut("communicate", lens, "D1") :
        lens \in { << 2, 2 >>, << 1, 0, 2 >>, << 3 >>, << 0, 1 >> } }
    \cup { ReadOp(2, "D1") }

NextCopy ==
    \/ Begin("t1", CopyCalls)
    \/ Insert("t1")
    \/ WriteOk("t1")
    \/ WaitGot("t1")
    \/ Recycle("t1")
    \/ ReaderAcquire
    \/ ReaderTake
    \/ ReaderFrame(ReadReplyFrames)

SpecCopy == InitDev /\ [][NextCopy]_vars

(***************************************************************************)
(* SpecShort: one caller calls communicate, with or without a read         *)
(* timeout, while the peer sends replies and frames of fewer than 38       *)
(* bytes.                                                                  *)
(***************************************************************************)
ShortPeerFrames == SimpleReplyFrames \cup ShortFrames

NextShort ==
    \/ Begin("t1", DeleteCalls)
    \/ Insert("t1")
    \/ WriteOk("t1")
    \/ WaitTimeout("t1")
    \/ TimeoutRemove("t1")
    \/ WaitGot("t1")
    \/ Recycle("t1")
    \/ ReaderAcquire
    \/ ReaderTake
    \/ ReaderFrame(ShortPeerFrames)
    \/ ReaderReconnect

SpecShort == Init /\ [][NextShort]_vars

(***************************************************************************)
(* Client::device.  An AmsAddr is a NetID of six bytes and a port.         *)
(***************************************************************************)
AmsAddr(n, p) == [netid |-> n, port |-> p]

\* AmsNetId::local()
LocalNetId == << 127, 0, 0, 1, 1, 1 >>

\* NetIDs given to Client::device, ports, and the source addresses a client
\* can have: one made from its IP address, and the local one
NetIds ==
    { LocalNetId, << 127, 0, 0, 1, 1, 2 >>, << 10, 0, 0, 5, 1, 1 >>,
      << 192, 168, 0, 7, 1, 1 >> }
Ports == {801, 851, 852, 10000, 58913}
GivenAddrs == { AmsAddr(n, p) : n \in NetIds, p \in Ports }
Sources ==
    { AmsAddr(<< 10, 0, 0, 5, 1, 1 >>, 58913),
      AmsAddr(<< 192, 168, 0, 9, 1, 1 >>, 58913),
      AmsAddr(LocalNetId, 58913) }

\* a device that takes the whole source address, port included
DeviceAddr_WithPort(src, a) == IF a.netid = LocalNetId THEN src ELSE a

\* the address of the Device that a client with the source src makes for a
DeviceAddr(src, a) ==
    IF a.netid = LocalNetId THEN AmsAddr(src.netid, a.port) ELSE a

\* client.device(a) on a client whose source address is src
MakeDevice ==
    /\ \E src \in Sources, a \in GivenAddrs :
         device' = [pc |-> "made", source |-> src, given |-> a,
                    addr |-> DeviceAddr(src, a), sent |-> << >>]
    /\ UNCHANGED << clientVars, requests, notification, message, reply >>

\* an operation of the Device: self.client.communicate(cmd, self.addr, ..)
DeviceRequest ==
    /\ device.pc = "made"
    /\ device.sent = << >>
    /\ device' = [device EXCEPT !.sent = << device.addr >>]
    /\ UNCHANGED << clientVars, requests, notification, message, reply >>

NextAddr == MakeDevice \/ DeviceRequest

SpecAddr == Init /\ [][NextAddr]_vars

(***************************************************************************)
(* fixup_write_read_return_buffers.  A sum-up call has a sequence of       *)
(* sub-requests, each with a read buffer rbuf and the length res.length    *)
(* returned for it; communicate has filled the read buffers in order with  *)
(* the data of all sub-requests, packed together.                          *)
(***************************************************************************)

\* a returned length taken one too small
ResLength_Less(l) == IF l > 0 THEN l - 1 ELSE 0

\* req.res.length.get() as usize
ResLength(l) == l

\* the bytes [0, n) of a buffer, whatever j_end is
SrcSlice_Front(buf, j_end, n) == SubSeq(buf, 1, n)

\* rbuf[j_end - n..j_end]
SrcSlice(buf, j_end, n) == SubSeq(buf, j_end - n + 1, j_end)

\* rbuf[size..][..n] overwritten by src
PutAt(buf, size, src) ==
    [k \in 1..Len(buf) |->
        IF k > size /\ k <= size + Len(src) THEN src[k - size] ELSE buf[k]]

\* the scan: for each request (init_cum, act_cum, init, act), the sums
\* being those over the requests before it
RECURSIVE SumTo(_, _)
SumTo(ns, i) == IF i = 0 THEN 0 ELSE SumTo(ns, i - 1) + ns[i]

Offsets(rbufs, lens) ==
    [i \in 1..Len(rbufs) |->
        [init_cum |-> SumTo([k \in 1..Len(rbufs) |-> Len(rbufs[k])], i - 1),
         act_cum  |-> SumTo([k \in 1..Len(rbufs) |-> ResLength(lens[k])],
                            i - 1),
         init     |-> Len(rbufs[i]),
         act      |-> ResLength(lens[i])]]

\* offsets[..=i].iter().rposition(|r| r.0 < end): the buffer the data ends in
RPosition(offsets, i, end) ==
    CHOOSE j \in 1..i :
        /\ offsets[j].init_cum < end
        /\ \A k \in (j + 1)..i : ~(offsets[k].init_cum < end)

\* the inner loop: the last n bytes still missing of request i are taken
\* from the end of what buffer j holds, then the loop goes to the buffer
\* before it
RECURSIVE CopyBack(_, _, _, _, _, _)
CopyBack(rbufs, offsets, i, j, j_end, size) ==
    LET n     == Min(j_end, size)
        left  == size - n
        moved == [rbufs EXCEPT
                     ![i] = PutAt(rbufs[i], left, SrcSlice(rbufs[j], j_end, n))]
    IN  IF left = 0 THEN moved
        ELSE CopyBack(moved, offsets, i, j - 1, offsets[j - 1].init, left)

\* the outer loop, from the last request i down to the first
RECURSIVE FixFrom(_, _, _)
FixFrom(rbufs, offsets, i) ==
    IF i = 0 THEN rbufs
    ELSE LET my_initial == offsets[i].init_cum
             my_actual  == offsets[i].act_cum
             size       == offsets[i].act
         IN  IF size = 0 THEN FixFrom(rbufs, offsets, i - 1)
             ELSE IF my_initial = my_actual THEN rbufs
             ELSE LET j == RPosition(offsets, i, my_actual + size)
                  IN  FixFrom(CopyBack(rbufs, offsets, i, j,
                                       my_actual + size - offsets[j].init_cum,
                                       size),
                              offsets, i - 1)

\* assert!(init >= act) of the scan, for every request
ScanAsserts(rbufs, lens) ==
    \A k \in 1..Len(rbufs) : Len(rbufs[k]) >= ResLength(lens[k])

fixup_write_read_return_buffers(rbufs, lens) ==
    FixFrom(rbufs, Offsets(rbufs, lens), Len(rbufs))

\* the read buffers of a sum-up call and the lengths returned for them: the
\* byte at place p of the data returned is the number p
Shapes == { << c, l >> : c \in 0..MaxCap, l \in 0..MaxCap }
\* the buffers and lengths of test_fixup_buffers
TestShapes ==
    << << 10, 8 >>, << 7, 6 >>, << 6, 0 >>, << 4, 4 >>, << 6, 2 >>,
       << 13, 9 >> >>
SumupCalls ==
    UNION { { s \in [1..n -> Shapes] : \A k \in 1..n : s[k][2] <= s[k][1] } :
            n \in 1..MaxReq }
    \cup { TestShapes }

Filled(s) ==
    [i \in 1..Len(s) |->
        [k \in 1..s[i][1] |->
            SumTo([m \in 1..Len(s) |-> s[m][1]], i - 1) + k]]

\* communicate has returned to write_read_multi
SumupReturned ==
    /\ requests.pc = "none"
    /\ \E s \in SumupCalls :
         requests' = [pc |-> "filled", rbuf |-> Filled(s),
                      length |-> [i \in 1..Len(s) |-> s[i][2]]]
    /\ UNCHANGED << clientVars, device, notification, message, reply >>

\* write_read_multi calls the fix-up, whose scan asserts init >= act for
\* every request, and returns
Fixup ==
    /\ requests.pc = "filled"
    /\ requests' =
         IF ScanAsserts(requests.rbuf, requests.length)
         THEN [requests EXCEPT
                 !.pc = "fixed",
                 !.rbuf = fixup_write_read_return_buffers(requests.rbuf,
                                                          requests.length)]
         ELSE [requests EXCEPT !.pc = "panicked"]
    /\ UNCHANGED << clientVars, device, notification, message, reply >>

NextFixup == SumupReturned \/ Fixup

SpecFixup == Init /\ [][NextFixup]_vars

(***************************************************************************)
(* Device::add_notification_multi and Device::delete_notification_multi.   *)
(* The output buffers are read_len and the res field of every sub-request: *)
(* result and handle for an add, result for a delete.                      *)
(***************************************************************************)

\* add_notification_multi with n sub-requests, delete_notification_multi
\* for the handles hs
AddMultiOp(n, t) ==
    [kind |-> "add_notification_multi", cmd |-> ReadWrite, target |-> t,
     handle |-> 0, dataOut |-> << 4 >> \o [k \in 1..n |-> 8],
     handles |-> << >>]
DelMultiOp(hs, t) ==
    [kind |-> "delete_notification_multi", cmd |-> ReadWrite, target |-> t,
     handle |-> 0, dataOut |-> << 4 >> \o [k \in 1..Len(hs) |-> 4],
     handles |-> hs]

\* req.handle() is Ok / req.ensure() is Ok: the result field of res is zero
ResultOk(res) == LE32(Take(res, 4)) = 0
\* the handle req.handle() returns: the length field of res
HandleOf(res) == LE32(Drop(res, 4))

\* a handle set from which one failed sub-request keeps all handles out
MultiTracked_AllOrNothing(set, o, bufs) ==
    IF \E k \in 2..Len(bufs) : ~ResultOk(bufs[k]) THEN set
    ELSE IF o.kind = "add_notification_multi"
    THEN set \cup { << o.target, HandleOf(bufs[k]) >> : k \in 2..Len(bufs) }
    ELSE set \ { << o.target, o.handles[k - 1] >> : k \in 2..Len(bufs) }

\* the handle set after the loop over the sub-requests
MultiTracked(set, o, bufs) ==
    LET ok == { k \in 2..Len(bufs) : ResultOk(bufs[k]) } IN
    IF o.kind = "add_notification_multi"
    THEN set \cup { << o.target, HandleOf(bufs[k]) >> : k \in ok }
    ELSE set \ { << o.target, o.handles[k - 1] >> : k \in ok }

\* communicate has returned Ok: the loop over the sub-requests, then Ok(())
TrackMulti(c) ==
    /\ pc[c] = "track"
    /\ notif_handles' = MultiTracked(notif_handles, op[c], data_out[c])
    /\ pc' = [pc EXCEPT ![c] = "done"]
    /\ UNCHANGED << invoke_id, reply_map, read_timeout, buf_pool, notif_q,
                    restart_q, reader_pc, cid, op, cell, ret, out >>
    /\ UNCHANGED << bufVars, envVars >>

\* replies to a sum-up request: the read length, then for every sub-request
\* the result and, for an add, the handle; replies that end after the first
\* sub-request; replies with an error code or a nonzero result
Word(n) == << n, 0, 0, 0 >>
SubResults == { Word(r) \o Word(h) : r \in {0, 1}, h \in Handles }
                  \cup { Word(r) : r \in {0, 1} }
MultiData ==
    { Word(Len(a) + Len(b)) \o a \o b : a \in SubResults, b \in SubResults }
    \cup { Word(Len(a)) \o a : a \in SubResults }
MultiReplyFrames ==
    { Frame(Me, "D1", ReadWrite, FlagsReply, 0, 0, i, TRUE, 0, d) :
        i \in Ids, d \in MultiData }
    \cup { Frame(Me, "D1", ReadWrite, FlagsReply, 0, e, i, TRUE, r, << >>) :
             i \in Ids, e \in {0, 1}, r \in {0, 1} }

MultiCalls ==
    { AddMultiOp(2, "D1") }
    \cup { DelMultiOp(hs, "D1") : hs \in { << 1, 2 >>, << 2, 2 >> } }

NextMulti ==
    \/ Begin("t1", MultiCalls)
    \/ Insert("t1")
    \/ WriteOk("t1")
    \/ WaitGot("t1")
    \/ Recycle("t1")
    \/ TrackMulti("t1")
    \/ ReaderAcquire
    \/ ReaderTake
    \/ ReaderFrame(MultiReplyFrames)

SpecMulti == InitDev /\ [][NextMulti]_vars

(***************************************************************************)
(* SpecSamples: Notification::new on the bytes of a frame from offset 42   *)
(* on, and the iteration of samples() over a frame it accepted.            *)
(***************************************************************************)

\* the frames: a stamp is a timestamp and a sequence of samples, a sample a
\* handle and data
SampleSet ==
    { [handle |-> h, data |-> d] : h \in Handles, d \in { << >>, << 9 >> } }
StampSet == UNION { [1..n -> SampleSet] : n \in {0, 1, 2} }
StampLists == UNION { [1..n -> StampSet] : n \in 0..MaxStamps }

\* the concatenation of byte sequences
RECURSIVE Flatten(_)
Flatten(bs) == IF bs = << >> THEN << >> ELSE Head(bs) \o Flatten(Tail(bs))

EncSample(s) == Word(s.handle) \o Word(Len(s.data)) \o s.data
EncStamp(st) ==
    << 7, 0, 0, 0, 0, 0, 0, 0 >> \o Word(Len(st))
        \o Flatten([k \in 1..Len(st) |-> EncSample(st[k])])
Encode(sl) ==
    Word(Len(sl)) \o Flatten([k \in 1..Len(sl) |-> EncStamp(sl[k])])

\* the bytes a peer can send: an encoding; one cut short; one followed by
\* a byte; one that announces more than it holds, its number of stamps,
\* the number of samples of its last stamp or the length of its last
\* sample being one too large
Bump(b, p) == [b EXCEPT ![p] = b[p] + 1]
Variants(sl) ==
    LET b == Encode(sl)
        last == sl[Len(sl)]
        V(k, bs) == [kind |-> k, stamps |-> sl, bytes |-> bs]
    IN  { V("exact", b), V("cut", Take(b, Len(b) - 1)),
          V("extra", b \o << 0 >>), V("more", Bump(b, 1)) }
        \cup (IF Len(sl) > 0
              THEN { V("more", Bump(b, Len(b) - Len(EncStamp(last)) + 9)) }
              ELSE {})
        \cup (IF Len(sl) > 0 /\ Len(last) > 0
              THEN { V("more", Bump(b, Len(b)
                                       - Len(EncSample(last[Len(last)])) + 5)) }
              ELSE {})

\* Notification::new(data), and samples() on the result
NewNotification ==
    /\ notification.pc = "none"
    /\ \E sl \in StampLists : \E v \in Variants(sl) :
         notification' =
           IF NotificationNew([hasResult |-> TRUE, data |-> v.bytes])
           THEN [pc |-> "iter", kind |-> v.kind, stamps |-> v.stamps,
                 bytes |-> v.bytes,
                 nstamps |-> LE32(Take(v.bytes, 4)),
                 data |-> Drop(v.bytes, 4), stamps_left |-> LE32(Take(v.bytes, 4)),
                 samples_left |-> 0, yielded |-> << >>]
           ELSE [pc |-> "rejected", kind |-> v.kind, stamps |-> v.stamps,
                 bytes |-> v.bytes]
    /\ UNCHANGED << clientVars, device, requests, message, reply >>

\* SampleIter::next: the next sample, None, or a panic of expect("size") or
\* of split_at
RECURSIVE IterNext(_)
IterNext(it) ==
    IF it.samples_left > 0
    THEN IF Len(it.data) < 8 THEN [it EXCEPT !.pc = "panicked"]
         ELSE LET handle == LE32(SubSeq(it.data, 1, 4))
                  length == LE32(SubSeq(it.data, 5, 8))
                  rest   == Drop(it.data, 8)
              IN  IF length > Len(rest) THEN [it EXCEPT !.pc = "panicked"]
                  ELSE [it EXCEPT
                          !.data = Drop(rest, length),
                          !.samples_left = it.samples_left - 1,
                          !.yielded = Append(it.yielded,
                                             [handle |-> handle,
                                              data |-> Take(rest, length)])]
    ELSE IF it.stamps_left > 0
    THEN IF Len(it.data) < 12 THEN [it EXCEPT !.pc = "panicked"]
         ELSE IterNext([it EXCEPT
                          !.samples_left = LE32(SubSeq(it.data, 9, 12)),
                          !.data = Drop(it.data, 12),
                          !.stamps_left = it.stamps_left - 1])
    ELSE [it EXCEPT !.pc = "end"]

SampleNext ==
    /\ notification.pc = "iter"
    /\ notification' = IterNext(notification)
    /\ UNCHANGED << clientVars, device, requests, message, reply >>

NextSamples == NewNotification \/ SampleNext

SpecSamples == Init /\ [][NextSamples]_vars

(***************************************************************************)
(* udp::Message.  data are the bytes of the packet, header included; items *)
(* are (tag, start, end) with data[start..end] the value of the tag.       *)
(***************************************************************************)
BECKHOFF_UDP_MAGIC == 1897162243

\* write_u16::<LE> and write_u32::<LE>
U16LE(n) == << n % 256, n \div 256 >>
U32LE(n) ==
    << n % 256, (n \div 256) % 256, (n \div 65536) % 256, n \div 16777216 >>

\* ServiceId::Identify and ServiceId::AddRoute; Tag::Status,
\* Tag::ComputerName and Tag::Options
ServiceIds == {1, 6}
Tags == {1, 5, 9}

\* the header Message::new writes
UdpHeader(service, source) ==
    U32LE(BECKHOFF_UDP_MAGIC) \o U32LE(0) \o U32LE(service)
        \o source.netid \o U16LE(source.port) \o U32LE(0)

\* LE::write_u32(&mut self.data[20..], n)
SetNumItems(data, n) == Take(data, 20) \o U32LE(n) \o Drop(data, 24)

\* the tag is written, start is the length of the data then; the length
\* field and the payload follow, and the item (tag, start, end) is pushed
AddItem(m, tag, payload) ==
    LET tagged == m.data \o U16LE(tag)
        start  == Len(tagged)
        whole  == tagged \o U16LE(Len(payload)) \o payload
        items  == Append(m.items, << tag, start, Len(whole) >>)
    IN  [m EXCEPT !.data = SetNumItems(whole, Len(items)), !.items = items]

add_bytes(m, tag, bytes) == AddItem(m, tag, bytes)
add_str(m, tag, str) == AddItem(m, tag, str \o << 0 >>)
add_u32(m, tag, n) == AddItem(m, tag, U32LE(n))

\* an item of a parsed message that starts at the length field
ItemRange_FromLength(pos, len) == << pos - 2, pos + len >>

\* items.push((tag, pos, pos + len))
ItemRange(pos, len) == << pos, pos + len >>

\* the loop over the items: it ends when no tag can be read, fails when a
\* length cannot be read and panics when the payload is cut
RECURSIVE ParseItems(_, _)
ParseItems(ptr, pos) ==
    IF Len(ptr) < 2 THEN [st |-> "ok", items |-> << >>]
    ELSE IF Len(ptr) < 4 THEN [st |-> "err", items |-> << >>]
    ELSE LET tag == LE32(SubSeq(ptr, 1, 2))
             len == LE32(SubSeq(ptr, 3, 4))
         IN  IF len > Len(ptr) - 4 THEN [st |-> "panic", items |-> << >>]
             ELSE LET rest == ParseItems(Drop(ptr, 4 + len), pos + len + 4)
                  IN  [rest EXCEPT
                         !.items = << << tag >> \o ItemRange(pos, len) >>
                                       \o rest.items]

\* Message::parse_internal(data, exp_service)
parse_internal(data, exp_service) ==
    IF Len(data) < 12 THEN [st |-> "err", items |-> << >>]
    ELSE IF LE32(SubSeq(data, 1, 4)) # BECKHOFF_UDP_MAGIC
         THEN [st |-> "err", items |-> << >>]
    ELSE IF LE32(SubSeq(data, 5, 8)) # 0 THEN [st |-> "err", items |-> << >>]
    ELSE IF LE32(SubSeq(data, 9, 12)) # exp_service
         THEN [st |-> "err", items |-> << >>]
    ELSE IF Len(data) < 24 THEN [st |-> "err", items |-> << >>]
    ELSE ParseItems(Drop(data, 24), 28)

\* map_tag: the bytes of the first item with the tag, or None
NoValue == [none |-> TRUE]
MapTag(m, tag) ==
    IF \E k \in 1..Len(m.items) : m.items[k][1] = tag
    THEN LET k == CHOOSE k \in 1..Len(m.items) :
                    /\ m.items[k][1] = tag
                    /\ \A l \in 1..(k - 1) : m.items[l][1] # tag
         IN  [none |-> FALSE,
              bytes |-> SubSeq(m.data, m.items[k][2] + 1, m.items[k][3])]
    ELSE NoValue

get_bytes(m, tag) == MapTag(m, tag)
get_str(m, tag) ==
    LET b == MapTag(m, tag) IN
    IF b.none THEN NoValue
    ELSE IF Len(b.bytes) = 0 THEN [none |-> FALSE, panic |-> TRUE]
    ELSE [none |-> FALSE, bytes |-> Take(b.bytes, Len(b.bytes) - 1)]
get_u32(m, tag) ==
    LET b == MapTag(m, tag) IN
    IF b.none \/ Len(b.bytes) < 4 THEN NoValue
    ELSE [none |-> FALSE, value |-> LE32(Take(b.bytes, 4))]

\* the values added: byte strings, strings (their UTF-8 bytes) and numbers
ByteValues == { << >>, << 200 >>, << 0, 7 >> }
StrValues == { << >>, << 65 >>, << 65, 0 >> }
U32Values == { 0, 1, 66000 }

\* Message::new(service, source)
MessageNew ==
    /\ message.pc = "none"
    /\ \E s \in ServiceIds, a \in Sources :
         message' = [pc |-> "built", service |-> s, data |-> UdpHeader(s, a),
                     items |-> << >>, added |-> << >>]
    /\ UNCHANGED << clientVars, device, requests, notification, reply >>

\* tags that have no item yet
FreeTags == Tags \ { message.added[k].tag : k \in 1..Len(message.added) }

AddBytes ==
    /\ message.pc = "built" /\ Len(message.added) < MaxItems
    /\ \E t \in FreeTags, b \in ByteValues :
         message' = [add_bytes(message, t, b) EXCEPT
                       !.added = Append(@, [tag |-> t, kind |-> "bytes",
                                            bytes |-> b])]
    /\ UNCHANGED << clientVars, device, requests, notification, reply >>

AddStr ==
    /\ message.pc = "built" /\ Len(message.added) < MaxItems
    /\ \E t \in FreeTags, b \in StrValues :
         message' = [add_str(message, t, b) EXCEPT
                       !.added = Append(@, [tag |-> t, kind |-> "str",
                                            bytes |-> b])]
    /\ UNCHANGED << clientVars, device, requests, notification, reply >>

AddU32 ==
    /\ message.pc = "built" /\ Len(message.added) < MaxItems
    /\ \E t \in FreeTags, n \in U32Values :
         message' = [add_u32(message, t, n) EXCEPT
                       !.added = Append(@, [tag |-> t, kind |-> "u32",
                                            value |-> n])]
    /\ UNCHANGED << clientVars, device, requests, notification, reply >>

\* Message::parse(message.as_bytes(), exp_service, false)
ParseMessage ==
    /\ message.pc = "built"
    /\ \E s \in ServiceIds :
         LET r == parse_internal(message.data, s) IN
         message' = [message EXCEPT !.pc = IF r.st = "ok" THEN "parsed"
                                           ELSE r.st,
                                    !.service = s,
                                    !.items = r.items]
    /\ UNCHANGED << clientVars, device, requests, notification, reply >>

NextUdp == MessageNew \/ AddBytes \/ AddStr \/ AddU32 \/ ParseMessage

SpecUdp == Init /\ [][NextUdp]_vars

(***************************************************************************)
(* SpecForeign: two threads call communicate while the peer sends only     *)
(* ADS frames whose destination is not the client: whole frames with       *)
(* consistent lengths, frames whose length field is wrong, and frames of   *)
(* 14 to 37 bytes, which end inside the AMS header.                        *)
(***************************************************************************)
ForeignShortFrames ==
    { [ams |-> 0, size |-> n, dest |-> "D1"] : n \in {14, 29, 30, 37} }
ForeignSkewedFrames == { f \in SkewedFrames : f.dest # Me }
ForeignPeerFrames ==
    ForeignFrames \cup ForeignSkewedFrames \cup ForeignShortFrames

NextForeign ==
    \/ \E c \in Callers : Begin(c, DeleteCalls)
    \/ \E c \in Callers : Insert(c)
    \/ \E c \in Callers : WriteOk(c)
    \/ \E c \in Callers : WaitTimeout(c)
    \/ \E c \in Callers : TimeoutRemove(c)
    \/ ReaderAcquire
    \/ ReaderTake
    \/ ReaderFrame(ForeignPeerFrames)
    \/ ReaderReconnect

SpecForeign == Init /\ [][NextForeign]_vars

(***************************************************************************)
(* SpecSkew: two threads call communicate while the peer sends only ADS    *)
(* frames whose data-length field is not their size less 38: whole frames  *)
(* with a field one too large, and frames that end inside the AMS header.  *)
(***************************************************************************)
SkewPeerFrames == SkewedFrames \cup ShortFrames

NextSkew ==
    \/ \E c \in Callers : Begin(c, DeleteCalls)
    \/ \E c \in Callers : Insert(c)
    \/ \E c \in Callers : WriteOk(c)
    \/ \E c \in Callers : WaitTimeout(c)
    \/ \E c \in Callers : TimeoutRemove(c)
    \/ ReaderAcquire
    \/ ReaderTake
    \/ ReaderFrame(SkewPeerFrames)
    \/ ReaderReconnect

SpecSkew == Init /\ [][NextSkew]_vars

(***************************************************************************)
(* SpecBadNotif: the peer sends only Notification frames, addressed to the *)
(* client and of consistent length, that fail a check of run_inner or of   *)
(* Notification::new, while two threads have requests pending.             *)
(***************************************************************************)
FailsValidation(f) ==
    \/ f.flags # FlagsRequest
    \/ f.err # 0
    \/ f.hasResult /\ (f.result # f.dlen - 4 \/ f.result < 4)
    \/ ~ NotificationNew(f)

BadNotifFrames == { f \in NotifFrames : FailsValidation(f) }

NextBadNotif ==
    \/ \E c \in Callers : Begin(c, DeleteCalls)
    \/ \E c \in Callers : Insert(c)
    \/ \E c \in Callers : WriteOk(c)
    \/ \E c \in Callers : WaitTimeout(c)
    \/ \E c \in Callers : TimeoutRemove(c)
    \/ ReaderAcquire
    \/ ReaderTake
    \/ ReaderFrame(BadNotifFrames)

SpecBadNotif == Init /\ [][NextBadNotif]_vars

(***************************************************************************)
(* SpecOther: the peer sends only frames whose AMS/TCP command is not 0,   *)
(* the four known ones and an unknown one, while two threads have requests *)
(* pending.                                                                *)
(***************************************************************************)
KnownOtherFrames == { [ams |-> a] : a \in {1, 4096, 4097, 4098} }

UnknownOtherFrames == OtherFrames \ KnownOtherFrames

NextOther ==
    \/ \E c \in Callers : Begin(c, DeleteCalls)
    \/ \E c \in Callers : Insert(c)
    \/ \E c \in Callers : WriteOk(c)
    \/ \E c \in Callers : WaitTimeout(c)
    \/ \E c \in Callers : TimeoutRemove(c)
    \/ ReaderAcquire
    \/ ReaderTake
    \/ ReaderFrame(KnownOtherFrames)
    \/ ReaderFrame(UnknownOtherFrames)
    \/ ReaderReconnect

SpecOther == Init /\ [][NextOther]_vars

(***************************************************************************)
(* SpecTwice: two threads call communicate without a timeout while the     *)
(* peer sends reply frames under every invoke id in any order and any      *)
(* number, so that a second frame with the id of a delivered one arrives   *)
(* before and after the caller has taken the first.                        *)
(***************************************************************************)
NextTwice ==
    \/ \E c \in Callers : Begin(c, DeleteCalls)
    \/ \E c \in Callers : Insert(c)
    \/ \E c \in Callers : WriteOk(c)
    \/ \E c \in Callers : WaitGot(c)
    \/ \E c \in Callers : Recycle(c)
    \/ ReaderAcquire
    \/ ReaderTake
    \/ ReaderFrame(SimpleReplyFrames)

SpecTwice == InitDev /\ [][NextTwice]_vars

(***************************************************************************)
(* SpecErr: the validation of communicate (client.rs:383-423) applied to   *)
(* every reply frame of consistent length addressed to the client, with    *)
(* and without AMS error code and result code, for every invoke id and     *)
(* every request.  The result is the value communicate returns.            *)
(***************************************************************************)
\* Command::action
action(k) ==
    CASE k = 1 -> "get device info"
      [] k = Read -> "read data"
      [] k = Write -> "write data"
      [] k = ReadWrite -> "write and read data"
      [] k = 4 -> "read state"
      [] k = 5 -> "write control"
      [] k = AddNotification -> "add notification"
      [] k = DeleteNotification -> "delete notification"
      [] k = Notification -> "notification"

\* errors::ads_error: the ADS domain error of a code, with the operation
ads_error(what, code) == [kind |-> "Ads", action |-> what, code |-> code]

\* what communicate returns for the reply f to the request o with invoke id i
ReplyResult(f, i, o) ==
    LET v == Validate(f, i, o) IN
      IF v = "Ads_err" THEN ads_error(action(o.cmd), f.err)
      ELSE IF v = "Ads_result" THEN ads_error(action(o.cmd), ResultOf(f))
      ELSE IF v = "Ok" THEN [kind |-> "Ok"]
      ELSE [kind |-> "Io", what |-> v]

\* replies with the AMS error code 0 or 6 and without a result field or
\* with the result 0 or 7
ErrFrames ==
    { Frame(Me, s, k, fl, 0, e, i, p[1], p[2], << >>) :
        s \in Devices, k \in {AddNotification, DeleteNotification},
        fl \in {FlagsRequest, FlagsReply}, e \in {0, 6}, i \in Ids,
        p \in { << FALSE, 0 >>, << TRUE, 0 >>, << TRUE, 7 >> } }

CheckReply ==
    /\ \E f \in ErrFrames, i \in Ids, o \in RawCalls :
         reply' = [pc |-> "checked", frame |-> f, invoke_id |-> i, op |-> o,
                   res |-> ReplyResult(f, i, o)]
    /\ UNCHANGED << clientVars, device, requests, notification, message >>

NextErr == CheckReply

SpecErr == Init /\ [][NextErr]_vars

(***************************************************************************)
(* SpecHand: two threads call communicate without a timeout while the peer *)
(* sends frames of every kind: replies under every invoke id,              *)
(* notifications, frames for another address, frames of inconsistent       *)
(* length, frames that end inside the AMS header, and other AMS/TCP        *)
(* commands.                                                               *)
(***************************************************************************)
AnyPeerFrames ==
    SimpleReplyFrames \cup NotifFrames \cup ForeignFrames \cup SkewedFrames
        \cup ShortFrames \cup OtherFrames

NextHand ==
    \/ \E c \in Callers : Begin(c, DeleteCalls)
    \/ \E c \in Callers : Insert(c)
    \/ \E c \in Callers : WriteOk(c)
    \/ \E c \in Callers : WaitGot(c)
    \/ \E c \in Callers : Recycle(c)
    \/ ReaderAcquire
    \/ ReaderTake
    \/ ReaderFrame(AnyPeerFrames)
    \/ ReaderNotifSend
    \/ NotifRecv
    \/ ReaderReconnect

SpecHand == InitDev /\ [][NextHand]_vars

(***************************************************************************)
(* SpecSumup: write_read_multi with one or two sub-requests.  The peer     *)
(* answers with a ReadWrite reply that carries, for every sub-request, the *)
(* result 0 and a length of its choice, followed by the data; communicate  *)
(* validates the reply and copies it over the buffers read_len, res.. and  *)
(* rbuf.., and the fix-up runs on what has been copied.                    *)
(***************************************************************************)
SumupOp(caps) ==
    [kind |-> "write_read_multi", cmd |-> ReadWrite, target |-> "D1",
     handle |-> 0,
     dataOut |-> << 4 >> \o [k \in 1..Len(caps) |-> 8] \o caps]

\* the buffers r_buffers of write_read_multi before the call
SumupBuffers(caps) ==
    << Word(0) >> \o [k \in 1..Len(caps) |-> Word(0) \o Word(0)]
        \o [k \in 1..Len(caps) |-> [m \in 1..caps[k] |-> 0]]

RECURSIVE SubLengths(_)
SubLengths(lens) ==
    IF lens = << >> THEN << >>
    ELSE Word(0) \o Word(Head(lens)) \o SubLengths(Tail(lens))

\* the reply of the peer: read length, (result 0, length) for each
\* sub-request, and as many data bytes as the lengths announce
SumupReply(lens) ==
    LET n == SumTo(lens, Len(lens)) IN
    Frame(Me, "D1", ReadWrite, FlagsReply, 0, 0, 0, TRUE, 0,
          Word(8 * Len(lens) + n) \o SubLengths(lens) \o [m \in 1..n |-> m])

\* the capacities of the read buffers and the lengths the peer returns
SumupCaps == UNION { [1..n -> 0..MaxCap] : n \in {1, 2} }
PeerLengths(caps) == [1..Len(caps) -> 0..(MaxCap + 1)]

\* communicate has validated the reply and copied it
SumupCommunicated ==
    /\ requests.pc = "none"
    /\ \E caps \in SumupCaps : \E lens \in PeerLengths(caps) :
         LET f == SumupReply(lens)
             bufs == Distribute(f, SumupBuffers(caps))
             n == Len(caps)
         IN  /\ Validate(f, 0, SumupOp(caps)) = "Ok"
             /\ requests' =
                  [pc |-> "filled",
                   rbuf |-> [k \in 1..n |-> bufs[1 + n + k]],
                   length |-> [k \in 1..n |-> LE32(Drop(bufs[1 + k], 4))]]
    /\ UNCHANGED << clientVars, device, notification, message, reply >>

NextSumup == SumupCommunicated \/ Fixup

SpecSumup == Init /\ [][NextSumup]_vars

(***************************************************************************)
(* SpecLen: one caller calls communicate with input data of lengths around *)
(* the largest one the header can carry, and the device answers.           *)
(***************************************************************************)
SizedCalls ==
    { OpIn(n, "D1") :
        n \in { 0, 4, LenMax - (AMS_HEADER_SIZE - TCP_HEADER_SIZE),
                LenMax - (AMS_HEADER_SIZE - TCP_HEADER_SIZE) + 1,
                LenMax, LenMax + 1 } }

WriteReplyFrames ==
    { Frame(Me, "D1", Write, FlagsReply, 0, e, i, TRUE, r, << >>) :
        e \in {0, 1}, r \in {0, 1}, i \in Ids }

NextLen ==
    \/ BeginSized("t1", SizedCalls)
    \/ Insert("t1")
    \/ WriteOk("t1")
    \/ WaitGot("t1")
    \/ Recycle("t1")
    \/ ReaderAcquire
    \/ ReaderTake
    \/ ReaderFrame(WriteReplyFrames)

SpecLen == InitDev /\ [][NextLen]_vars

(***************************************************************************)
(* SpecShut: a thread makes any sequence of add_notification,              *)
(* delete_notification and Client::shutdown calls while Client::purge may  *)
(* be called at any time; the device confirms or refuses each request.     *)
(***************************************************************************)
\* the thread is not inside shutdown and calls add or delete
DeviceCall(c) ==
    /\ shutdown.pc \in {"idle", "returned"}
    /\ Begin(c, DeviceOps)

NextShut ==
    \/ DeviceCall("t1")
    \/ ShutdownTake("t1")
    \/ ShutdownIssue("t1")
    \/ ShutdownReturn("t1")
    \/ ShutdownFinish
    \/ Purge
    \/ Insert("t1")
    \/ WriteOk("t1")
    \/ WaitGot("t1")
    \/ Recycle("t1")
    \/ Track("t1")
    \/ ReaderAcquire
    \/ ReaderTake
    \/ ReaderFrame(DeviceReplyFrames)

SpecShut == InitDev /\ [][NextShut]_vars

(***************************************************************************)
(* SpecNotif: one caller and a peer that also sends notifications, with a  *)
(* consumer that may or may not read the notification channel.             *)
(***************************************************************************)
PeerFramesNotif == SimpleReplyFrames \cup NotifFrames \cup StrayFrames

NextNotif ==
    \/ Begin("t1", DeleteCalls)
    \/ CommStep("t1")
    \/ ReaderStep(PeerFramesNotif)
    \/ ReaderNotifSend
    \/ NotifRecv

SpecNotif == Init /\ [][NextNotif]_vars

(***************************************************************************)
(* SpecFair: Spec with the scheduling of the threads: a caller that can    *)
(* take a step of communicate eventually takes one, and so does the reader *)
(* for the steps that do not wait for the peer or the session manager.     *)
(***************************************************************************)
Fairness ==
    /\ \A c \in Callers : WF_vars(CommStep(c))
    /\ WF_vars(ReaderTake)
    /\ WF_vars(ReaderReconnect)

SpecFair == Init /\ [][Next]_vars /\ Fairness

(***************************************************************************)
(* Properties of the request/reply multiplexer.                            *)
(***************************************************************************)

\* the call of c is registered in the reply registry and has not returned
Outstanding(c) == pc[c] \in {"write", "wait", "tmo"}

\* C1: whatever the order in which replies arrive, the frame in the slot of
\* a call carries the invoke id of that call, and no call ends with the
\* error of a foreign invoke id.
C1_OwnReply ==
    \A c \in Callers :
        /\ cell[c] # NoFrame => cell[c].id = cid[c]
        /\ ret[c] # "Io_id"

\* two calls with distinct invoke ids wait, and both have their reply
C1_Witness ==
    \E c1, c2 \in Callers :
        /\ pc[c1] = "wait" /\ pc[c2] = "wait"
        /\ cid[c1] # cid[c2]
        /\ cell[c1] # NoFrame /\ cell[c2] # NoFrame

\* C2: the registry holds no entry of a call that has returned, whatever
\* the exit path of communicate (reply, timeout, failed write).
C2_NoEntryAfterReturn == \A i \in Ids : reply_map[i] # Orphan

\* the replies with invoke id i that the peer can send to the client
RepliesWithId(i) == { f \in ReplyFrames : f.id = i }

\* C3: when a call returns from a timeout the registry has no entry for its
\* invoke id, and a reply with that id that arrives then reaches no caller
\* and keeps the reader in its loop.
C3_TimeoutThenDrop ==
    [][ \A c \in Callers :
          (pc[c] = "tmo" /\ pc'[c] = "done") =>
              /\ reply_map'[cid[c]] = NoEntry
              /\ \A f \in RepliesWithId(cid[c]) :
                    /\ Recipient(f, reply_map') = "nobody"
                    /\ ReaderOutcome(f) = "reply" ]_vars

\* a call has timed out and returned while the reader is reading frames
C3_Witness ==
    \E c \in Callers :
        /\ pc[c] = "done" /\ ret[c] = "Io_timeout"
        /\ reader_pc = "read"
        /\ \A i \in Ids : reply_map[i] = NoEntry

\* C4: no two outstanding requests share an invoke id, also after the
\* counter has wrapped around.
C4_UniqueOutstandingIds ==
    \A c1, c2 \in Callers :
        (c1 # c2 /\ Outstanding(c1) /\ Outstanding(c2)) => cid[c1] # cid[c2]

\* the checks of the reply validation contract on the reply f of the call
\* with invoke id i and operation o
ReplyContract(f, i, o) ==
    /\ f.src = o.target
    /\ f.cmd = o.cmd
    /\ f.flags = 5
    /\ f.id = i
    /\ f.err = 0
    /\ f.hasResult => f.result = 0

\* C5: whenever communicate returns Ok, the reply it was given satisfies
\* every check of the reply validation contract.
C5_OkImpliesValidReply ==
    [][ \A c \in Callers :
          (pc[c] = "recycle" /\ ret'[c] = "Ok") =>
              ReplyContract(cell[c], cid[c], op[c]) ]_vars

\* a call has returned Ok
C5_Witness == \E c \in Callers : pc[c] = "done" /\ ret[c] = "Ok"

\* C6: with a read timeout configured, a call whose request was written
\* eventually returns.
C6_WrittenCallReturns ==
    \A c \in Callers : (read_timeout /\ pc[c] = "wait") ~> (pc[c] = "done")

C8_EnqueueNeverBlocks == reader_pc = "nsend" => ENABLED ReaderNotifSend

\* C9: returning the reply buffer to the pool never blocks the caller, and
\* the reader never waits for a buffer.
C9_RecycleNeverBlocks ==
    /\ \A c \in Callers : pc[c] = "recycle" => ENABLED Recycle(c)
    /\ reader_pc = "take" => ENABLED ReaderTake

\* C10: when add_notification returns Ok(h) on the device a, the tracked
\* set contains (a, h); when delete_notification(h) returns Ok, it does not.
C10_TrackedAfterReturn ==
    [][ \A c \in Callers :
          (pc[c] = "track" /\ pc'[c] = "done") =>
              IF op[c].kind = "add_notification"
              THEN << op[c].target, out[c] >> \in notif_handles'
              ELSE << op[c].target, op[c].handle >> \notin notif_handles' ]_vars

\* an add has returned a handle that is tracked, and a delete of another
\* handle has returned with that handle untracked
C10_Witness ==
    \E c1, c2 \in Callers :
        /\ pc[c1] = "done" /\ ret[c1] = "Ok"
        /\ op[c1].kind = "add_notification"
        /\ << op[c1].target, out[c1] >> \in notif_handles
        /\ pc[c2] = "done" /\ ret[c2] = "Ok"
        /\ op[c2].kind = "delete_notification"
        /\ op[c2].handle # out[c1]
        /\ << op[c2].target, op[c2].handle >> \notin notif_handles

\* the step on which a successful add_notification records its handle
ConfirmedAdd(c) ==
    /\ pc[c] = "track" /\ pc'[c] = "done"
    /\ op[c].cmd = AddNotification /\ ret[c] = "Ok"
    /\ notif_handles' = notif_handles \cup { << op[c].target, out[c] >> }

\* the step on which a successful delete_notification forgets its handle
ConfirmedDelete(c) ==
    /\ pc[c] = "track" /\ pc'[c] = "done"
    /\ op[c].cmd = DeleteNotification /\ ret[c] = "Ok"
    /\ notif_handles' = notif_handles \ { << op[c].target, op[c].handle >> }

\* a call of Client::purge
PurgeStep == notif_handles' = {} /\ shutdown' = shutdown /\ pc' = pc

\* the first statement of Client::shutdown, which takes the whole set
DrainStep == shutdown.pc \in {"idle", "returned"} /\ shutdown'.pc = "loop"

\* an add or a delete returns an error to its caller
FailedCall(c) == pc[c] # "done" /\ pc'[c] = "done" /\ ret'[c] # "Ok"

\* C11 as stated: an entry enters the tracked set only when the server has
\* confirmed the add, leaves it only when the server has confirmed the
\* delete of that handle or on a purge, and a failed add or delete leaves
\* the set unchanged.
C11_EntersAndLeavesOnConfirmation ==
    [][ /\ (notif_handles' \ notif_handles # {}) =>
                \E c \in Callers : ConfirmedAdd(c)
        /\ (notif_handles \ notif_handles' # {}) =>
                ((\E c \in Callers : ConfirmedDelete(c)) \/ PurgeStep)
        /\ \A c \in Callers :
                FailedCall(c) => notif_handles' = notif_handles ]_vars

\* C11 as amended: entries also leave the set when shutdown takes the whole
\* set, before any of its deletes is confirmed.
C11_LeavesAlsoOnShutdown ==
    [][ /\ (notif_handles' \ notif_handles # {}) =>
                \E c \in Callers : ConfirmedAdd(c)
        /\ (notif_handles \ notif_handles' # {}) =>
                \/ \E c \in Callers : ConfirmedDelete(c)
                \/ PurgeStep
                \/ DrainStep /\ notif_handles' = {}
        /\ \A c \in Callers :
                FailedCall(c) => notif_handles' = notif_handles ]_vars

\* shutdown has taken a set of two entries and has not yet asked the
\* server to delete any of them
C11_Witness ==
    /\ shutdown.pc = "loop" /\ shutdown.issued = << >>
    /\ Cardinality(shutdown.taken) = 2
    /\ notif_handles = {}

\* the entries shutdown has called delete_notification for
Issued == { shutdown.issued[i] : i \in 1..Len(shutdown.issued) }

\* C12: shutdown empties the tracked set, calls delete_notification once
\* for every entry that was in it, on the device of the entry, and goes on
\* with the remaining entries when a delete fails.
C12_ShutdownDeletesEach ==
    [][ /\ DrainStep =>
              (notif_handles' = {} /\ shutdown'.taken = notif_handles)
        /\ (shutdown.pc = "loop" /\ shutdown'.pc = "call") =>
              \E c \in Callers :
                 /\ pc[c] # "insert" /\ pc'[c] = "insert"
                 /\ op'[c].cmd = DeleteNotification
                 /\ << op'[c].target, op'[c].handle >>
                       \in shutdown.taken \ Issued
                 /\ shutdown'.issued =
                       Append(shutdown.issued,
                              << op'[c].target, op'[c].handle >>)
        /\ (shutdown.pc # "returned" /\ shutdown'.pc = "returned") =>
              (Issued = shutdown.taken
               /\ Len(shutdown.issued) = Cardinality(shutdown.taken)) ]_vars

\* shutdown has returned after two deletes of which at least one failed
C12_Witness ==
    /\ shutdown.pc = "returned"
    /\ Len(shutdown.issued) = 2
    /\ shutdown.failed >= 1

\* C13 as stated: once shutdown has returned the socket is closed, so the
\* read the reader is in fails and its loop over the socket exits.
C13_ReaderExitsAfterShutdown ==
    [][ (shutdown.pc = "returned" /\ reader_pc = "read"
         /\ reader_pc' # reader_pc) => reader_pc' = "exited" ]_vars

\* C14: each socket the reader acquires makes it post one restart event
\* without waiting; however many were posted unread, one event is pending,
\* and a receiver that reads takes that event and leaves the channel empty.
C14_OnePendingEvent ==
    /\ [](reader_pc = "recv" => ENABLED ReaderSpawn)
    /\ [](restart_q \in {0, 1})
    /\ [][ (reader_pc = "recv" /\ reader_pc' = "take") => restart_q' = 1 ]_vars
    /\ [][ \A s \in Subscribers :
              got'[s] # got[s] =>
                 (restart_q = 1 /\ restart_q' = 0
                  /\ got'[s] = got[s] + 1) ]_vars

\* the reader has posted the event of its third socket, nobody has read
\* the two events before it, and one subscriber then took the only event
C14_Witness ==
    /\ reader_session = 3
    /\ restart_q = 0
    /\ got["s1"] = 1 /\ got["s2"] = 0

\* C15 as stated: every subscriber that is listening receives the restart
\* event posted by a reader restart.
C15_EverySubscriberNotified ==
    \A s \in Subscribers :
        \A k \in 0..(MaxGot - 1) :
            (restart_q = 1 /\ got[s] = k) ~> (got[s] > k)

\* C16: a read or write resolves the symbol exactly when no handle is
\* cached or the session id it reads differs from the cached one; a
\* successful resolve caches the new handle with the session id read, the
\* device call is made with the cached handle, and nothing else changes
\* the cache.
C16_ResolveOnSessionChange ==
    [][ /\ (mapping.pc = "idle" /\ mapping'.pc # "idle") =>
              /\ (mapping'.pc = "resolve") <=>
                     (mapping.handle = 0 \/ mapping.session_id # session_id)
              /\ mapping'.seen = session_id
        /\ (mapping.pc = "resolve" /\ mapping'.pc = "io") =>
              /\ mapping'.handle = HandleIn(session_id)
              /\ mapping'.session_id = mapping.seen
        /\ (mapping.pc = "io" /\ mapping'.pc = "idle") =>
              mapping'.used = mapping.handle
        /\ ~(mapping.pc = "resolve" /\ mapping'.pc = "io") =>
              /\ mapping'.handle = mapping.handle
              /\ mapping'.session_id = mapping.session_id ]_vars

\* the mapping holds the handle it resolved in session 1, the session is
\* now 2, and the call that has read the new session id is resolving the
\* symbol again
C16_Witness ==
    /\ mapping.pc = "resolve"
    /\ mapping.handle = HandleIn(1) /\ mapping.session_id = 1
    /\ mapping.used = mapping.handle
    /\ mapping.seen = 2 /\ session_id = 2

\* the step on which the call of c has validated its reply and copied it
CopiedStep(c) == pc[c] = "wait" /\ pc'[c] = "recycle"

\* C17 as stated: when Device::read returns Ok(n) for a validated reply,
\* n is at most the length of the buffer and the first n bytes of the
\* buffer are the data bytes the peer returned.
C17_ReadLengthWithinBuffer ==
    [][ \A c \in Callers :
          (CopiedStep(c) /\ op[c].kind = "read") =>
              LET n == out'[c]
                  buf == data_out'[c][2]
                  sent == Drop(cell[c].data, 4)
              IN  /\ n <= Len(buf)
                  /\ n <= Len(sent)
                  /\ Take(buf, n) = Take(sent, n) ]_vars

\* the number of bytes in the buffers before the j-th one
RECURSIVE LenBefore(_, _)
LenBefore(bufs, j) ==
    IF j = 1 THEN 0 ELSE LenBefore(bufs, j - 1) + Len(bufs[j - 1])

\* C18: a successful communicate with output buffers computes the data
\* length of the header less 4 as its result, the k-th byte after the
\* result field is in the buffers at position k counted over the buffers in
\* order, and the bytes of the buffers past the data are as before.
C18_DataDistributed ==
    [][ \A c \in Callers :
          (CopiedStep(c) /\ op[c].dataOut # << >>) =>
              LET f == cell[c]
                  old == data_out[c]
                  new == data_out'[c]
              IN  /\ retlen'[c] = f.dlen - 4
                  /\ Len(new) = Len(old)
                  /\ \A j \in 1..Len(old) :
                        /\ Len(new[j]) = Len(old[j])
                        /\ \A i \in 1..Len(old[j]) :
                              new[j][i] =
                                IF LenBefore(old, j) + i <= f.dlen - 4
                                THEN f.data[LenBefore(old, j) + i]
                                ELSE old[j][i] ]_vars

\* a call with the buffers of 1, 0 and 2 bytes has returned Ok(2): the
\* first and the third buffer hold one data byte each and the last byte
\* is the caller's own
C18_Witness ==
    \E c \in Callers :
        /\ pc[c] = "done" /\ ret[c] = "Ok" /\ retlen[c] = 2
        /\ data_out[c] = << << 1 >>, << >>, << 2, Fill >> >>

Pending(c) == pc[c] = "wait" /\ cell[c] = NoFrame /\ reply_map[cid[c]] = c

\* C20 as stated: a frame of fewer than 38 bytes that arrives for a pending
\* request is given to the call of that request, which fails with the Io
\* error "reply too short".  The reader stops only on such a frame here, so
\* the frame has to be in the slot of the call when the reader has taken
\* it from the socket, and the call then returns "reply too short".
C20_ShortReplyFailsCall ==
    [][ \A c \in Callers :
          /\ (Pending(c) /\ reader_pc = "read"
               /\ reader_pc' \in {"panicked", "exited"})
              => cell'[c] # NoFrame
          /\ (pc[c] = "wait" /\ pc'[c] = "done"
               /\ reader_pc \in {"panicked", "exited"})
              => ret'[c] = "Io_short" ]_vars

\* the header of a request with n bytes of input cannot carry its lengths
TooLong(n) == AMS_HEADER_SIZE - TCP_HEADER_SIZE + n > LenMax

\* C21: a call whose input data do not fit the length fields of the header
\* returns InvalidData at once, with the registry as before and without
\* reaching the write; only calls whose lengths fit go on to the registry
\* and the socket.
C21_TooLongRejected ==
    /\ [](\A c \in Callers :
             pc[c] \notin {"idle", "done"} => ~ TooLong(op[c].dataIn))
    /\ [][ \A c \in Callers :
              (/\ pc[c] \in {"idle", "done"}
               /\ invoke_id' # invoke_id
               /\ op'[c] # NoOp)
              => IF TooLong(op'[c].dataIn)
                 THEN /\ pc'[c] = "done" /\ ret'[c] = "InvalidData"
                      /\ reply_map' = reply_map
                 ELSE pc'[c] = "insert" ]_vars

\* a call whose data length alone would fit the field, but not with the
\* 32 bytes of the AMS header added, has returned InvalidData
C21_Witness ==
    \E c \in Callers :
        /\ pc[c] = "done" /\ ret[c] = "InvalidData"
        /\ op[c].dataIn = LenMax
        /\ reply_map = [i \in Ids |-> NoEntry]

\* C22: the Device made for an address with the local NetID has the NetID
\* of the client's source and the port given, the Device made for any
\* other address has that address, and a request of the Device goes to the
\* address of the Device.
C22_LocalNetIdSubstituted ==
    [][ /\ (device'.pc = "made" /\ device'.sent = << >>) =>
              LET a == device'.given IN
              IF a.netid = << 127, 0, 0, 1, 1, 1 >>
              THEN /\ device'.addr.netid = device'.source.netid
                   /\ device'.addr.port = a.port
              ELSE device'.addr = a
        /\ (device.pc = "made" /\ device'.sent # << >>
               /\ device.sent = << >>) =>
              /\ device'.sent = << device.addr >>
              /\ device'.addr = device.addr ]_vars

\* a Device made for the local NetID and port 851 by a client with another
\* NetID has sent a request to the client's NetID, port 851
C22_Witness ==
    /\ device.pc = "made"
    /\ device.given = AmsAddr(LocalNetId, 851)
    /\ device.source.netid = << 10, 0, 0, 5, 1, 1 >>
    /\ device.sent = << AmsAddr(<< 10, 0, 0, 5, 1, 1 >>, 851) >>

\* C23: when the fix-up has run on read buffers filled in order with the
\* packed data, the first l_i bytes of buffer i are the bytes at the places
\* [l_0 + .. + l_(i-1), l_0 + .. + l_i) of the concatenation of the buffers
\* as they were before, for every sub-request i.
C23_EachBufferHoldsItsData ==
    [][ (requests.pc = "filled" /\ requests'.pc = "fixed") =>
          \A i \in 1..Len(requests.rbuf) :
              LET before == SumTo(requests.length, i - 1)
                  l      == requests.length[i]
              IN  SubSeq(requests'.rbuf[i], 1, l)
                    = SubSeq(Flatten(requests.rbuf), before + 1, before + l)
      ]_vars

\* the fix-up has run on the buffers of test_fixup_buffers: the last buffer
\* starts with the nine bytes that follow the first twenty of the data
C23_Witness ==
    /\ requests.pc = "fixed"
    /\ requests.length = << 8, 6, 0, 4, 2, 9 >>
    /\ Len(requests.rbuf[6]) = 13
    /\ SubSeq(requests.rbuf[6], 1, 9) = [k \in 1..9 |-> 20 + k]

\* C24: when every returned length is the size of its buffer, the fix-up
\* leaves every byte of every buffer as it was.
C24_FullBuffersUntouched ==
    [][ ( /\ requests.pc = "filled" /\ requests'.pc = "fixed"
          /\ \A i \in 1..Len(requests.rbuf) :
                 requests.length[i] = Len(requests.rbuf[i]) )
        => requests'.rbuf = requests.rbuf ]_vars

\* the fix-up has run on three full buffers of sizes 2, 0 and 3
C24_Witness ==
    /\ requests.pc = "fixed"
    /\ requests.length = << 2, 0, 3 >>
    /\ requests.rbuf = << << 1, 2 >>, << >>, << 3, 4, 5 >> >>

\* C25: when the sum-up request of add_notification_multi or
\* delete_notification_multi succeeds the call returns Ok, and a pair of
\* the device and a handle is in the tracked set afterwards exactly if it
\* was there and no sub-request with result 0 deleted it, or a
\* sub-request with result 0 added it; when the request fails the call
\* returns its error and the tracked set is as it was.
C25_ElementsDoNotPoisonPeers ==
    [][ \A c \in Callers :
          (pc[c] # "done" /\ pc'[c] = "done") =>
            LET o   == op[c]
                res == [k \in 1..(Len(o.dataOut) - 1) |-> data_out[c][k + 1]]
                ok  == { k \in 1..Len(res) : LE32(SubSeq(res[k], 1, 4)) = 0 }
            IN  IF pc[c] = "track"
                THEN /\ ret'[c] = "Ok"
                     /\ \A h \in 0..2 :
                          << o.target, h >> \in notif_handles' <=>
                            IF o.kind = "add_notification_multi"
                            THEN \/ << o.target, h >> \in notif_handles
                                 \/ \E k \in ok :
                                       LE32(SubSeq(res[k], 5, 8)) = h
                            ELSE /\ << o.target, h >> \in notif_handles
                                 /\ \A k \in ok : o.handles[k] # h
                ELSE /\ ret'[c] \notin {"none", "Ok"}
                     /\ notif_handles' = notif_handles ]_vars

\* an add_notification_multi has returned Ok: the first sub-request failed
\* and the second one, with handle 2, is tracked
C25_Witness ==
    /\ pc["t1"] = "done" /\ ret["t1"] = "Ok"
    /\ op["t1"].kind = "add_notification_multi"
    /\ data_out["t1"] = << Word(16), Word(1) \o Word(1), Word(0) \o Word(2) >>
    /\ notif_handles = { << "D1", 2 >> }

\* C26: Notification::new accepts only bytes that are, after the number of
\* stamps, exactly that many stamps with their samples, nothing missing and
\* nothing left over; every call of next() on a frame it accepted returns
\* the next sample as advertised, handle and data, or None after the last
\* one, and never panics, so the iteration yields the samples of all stamps
\* and no more.
C26_AcceptedFramesIterate ==
    [][ LET n == notification' IN
        /\ n.pc = "rejected" => n.kind # "exact"
        /\ n.pc \in {"iter", "end", "panicked"} =>
             /\ n.kind = "exact"
             /\ LET sl == n.stamps IN
                  /\ n.bytes = Encode(sl)
                  /\ n.nstamps = Len(sl)
                  /\ n.pc # "panicked"
                  /\ Len(n.yielded) <= Len(Flatten(sl))
                  /\ n.yielded = Take(Flatten(sl), Len(n.yielded))
                  /\ n.pc = "end" => n.yielded = Flatten(sl)
                  /\ notification.pc = "iter" =>
                       \/ n.pc = "end" /\ n.yielded = notification.yielded
                       \/ /\ n.pc = "iter"
                          /\ Len(n.yielded) = Len(notification.yielded) + 1
      ]_vars

\* a frame of two stamps, the first with two samples and the second with
\* one, has been iterated to the end
C26_Witness ==
    /\ notification.pc = "end"
    /\ notification.nstamps = 2
    /\ notification.yielded =
         << [handle |-> 1, data |-> << 9 >>], [handle |-> 2, data |-> << >>],
            [handle |-> 2, data |-> << 9 >>] >>
    /\ Len(notification.bytes) = 4 + 12 + 9 + 8 + 12 + 9

\* C27: in a message parsed, with the service id it was made with, from the
\* bytes of a message built by add_bytes, add_str and add_u32 for distinct
\* tags, the getter of every tag returns the value that was added for it.
C27_RoundTrip ==
    [][ (message.pc = "built" /\ message'.pc # "built") =>
          IF message'.service # message.service THEN message'.pc = "err"
          ELSE /\ message'.pc = "parsed"
               /\ \A k \in 1..Len(message.added) :
                    LET a == message.added[k] IN
                    CASE a.kind = "bytes" ->
                           get_bytes(message', a.tag)
                             = [none |-> FALSE, bytes |-> a.bytes]
                      [] a.kind = "str" ->
                           get_str(message', a.tag)
                             = [none |-> FALSE, bytes |-> a.bytes]
                      [] a.kind = "u32" ->
                           get_u32(message', a.tag)
                             = [none |-> FALSE, value |-> a.value]
               /\ \A t \in Tags :
                    (\A k \in 1..Len(message.added) :
                        message.added[k].tag # t)
                    => get_bytes(message', t) = NoValue ]_vars

\* a message with a string, a number and bytes has been parsed
C27_Witness ==
    /\ message.pc = "parsed"
    /\ message.added =
         << [tag |-> 5, kind |-> "str", bytes |-> << 65 >>],
            [tag |-> 9, kind |-> "u32", value |-> 66000],
            [tag |-> 1, kind |-> "bytes", bytes |-> << 0, 7 >>] >>
    /\ message.items = << << 5, 28, 30 >>, << 9, 34, 38 >>, << 1, 42, 44 >> >>

\* C28: a call comes to the write of its request only by the step that
\* inserts its slot under its invoke id, and the write itself, failed or
\* not, is the next step of the call and leaves the registry to the
\* others: no request is on the socket before its entry was inserted.
C28_InsertedBeforeWritten ==
    [][ \A c \in Callers :
          /\ (pc[c] # "write" /\ pc'[c] = "write") =>
                /\ pc[c] = "insert"
                /\ cid'[c] = cid[c]
                /\ reply_map'[cid[c]] = c
          /\ (pc[c] # "wait" /\ pc'[c] = "wait") =>
                /\ pc[c] = "write"
                /\ reply_map' = reply_map
          /\ (pc[c] = "insert" /\ pc'[c] # "insert") => pc'[c] = "write"
      ]_vars

\* both requests are on the socket and both entries are in the registry
C28_Witness ==
    /\ pc["t1"] = "wait" /\ pc["t2"] = "wait"
    /\ cid["t1"] # cid["t2"]
    /\ reply_map[cid["t1"]] = "t1" /\ reply_map[cid["t2"]] = "t2"

\* C29 as stated: the reader discards every frame with AMS command 0 whose
\* destination is not the client, leaving the registry, the slots and the
\* notification channel as they are, and goes on to the next frame of the
\* same socket.  Every frame the peer sends here is such a frame.
C29_ForeignFrameDiscarded ==
    [][ (reader_pc = "read" /\ reader_pc' # "read") =>
          /\ reply_map' = reply_map
          /\ cell' = cell
          /\ notif_q' = notif_q
          /\ reader_pc' = "take" ]_vars

\* C30: the step of the reader after its per-socket loop has ended takes it
\* to the wait for the next socket, and the session manager is asked in
\* that step (the session changes) exactly if the session id is the one the
\* reader read when it got the socket; the reader asks in no other step,
\* hence once per socket at most.
C30_ReconnectIfSessionUnchanged ==
    [][ /\ (reader_pc = "exited" /\ reader_pc' # "exited") =>
              /\ reader_pc' = "recv"
              /\ (session_id' # session_id) <=> (reader_session = session_id)
        /\ (session_id' # session_id /\ reader_pc' # reader_pc) =>
              reader_pc = "exited"
        /\ (reader_pc = "recv" /\ reader_pc' # "recv") =>
              reader_session' = session_id ]_vars

\* the reader got its socket in session 2 and waits for the next one in
\* session 4: of the two changes it has asked for one at most
C30_Witness ==
    /\ reader_pc = "recv"
    /\ reader_session = 2
    /\ session_id = 4

\* C31 as stated: on every ADS frame whose data-length field is not the
\* packet length plus 6 less 38, frames too short for the AMS header
\* included, run_inner returns, and the frame reaches no slot and not the
\* notification channel.  Every frame the peer sends here is such a frame.
C31_InconsistentLengthExits ==
    [][ (reader_pc = "read" /\ reader_pc' # "read") =>
          /\ reader_pc' = "exited"
          /\ cell' = cell
          /\ reply_map' = reply_map
          /\ notif_q' = notif_q ]_vars

\* C32 as stated: a Notification frame addressed to the client that fails
\* the checks of run_inner or of Notification::new is discarded: nothing
\* enters the notification channel, no slot and no registry entry changes,
\* and the reader takes the next frame.  Every frame here is such a frame.
C32_BadNotificationDiscarded ==
    [][ (reader_pc = "read" /\ reader_pc' # "read") =>
          /\ reader_pc' = "take"
          /\ notif_q' = notif_q
          /\ cell' = cell
          /\ reply_map' = reply_map ]_vars

\* C33: a frame with AMS/TCP command 1, 0x1000, 0x1001 or 0x1002 changes
\* neither the registry, the slots, the notification channel nor the
\* restart channel, and the reader takes the next frame of the same socket;
\* on any other command than these and 0 run_inner returns.
C33_KnownCommandStep ==
    (reader_pc = "read" /\ reader_pc' # "read" /\ ReaderFrame(KnownOtherFrames)) =>
        /\ reader_pc' = "take"
        /\ UNCHANGED << reply_map, cell, notif_q, restart_q >>

C33_UnknownCommandStep ==
    (reader_pc = "read" /\ reader_pc' # "read" /\ ReaderFrame(UnknownOtherFrames)) =>
        /\ reader_pc' = "exited"
        /\ UNCHANGED << reply_map, cell, notif_q, restart_q >>

C33_OtherCommandsSkippedOrExit ==
    [][ /\ C33_KnownCommandStep
        /\ C33_UnknownCommandStep
        /\ (reader_pc = "read" /\ reader_pc' # "read") =>
              reader_pc' \in {"take", "exited"} ]_vars

C33_Witness ==
    /\ reader_pc = "exited"
    /\ \E i \in Ids : reply_map[i] # NoEntry

\* C34: a slot is set at most once.  The reader puts a frame into a slot
\* only if the slot is empty and registered under the frame's invoke id,
\* and that step removes the entry; a frame that finds no entry under its
\* id changes no slot; a filled slot keeps its frame until its own caller
\* takes it.
C34_DeliveryStep(c) ==
    (cell'[c] # cell[c] /\ cell'[c] # NoFrame) =>
        /\ cell[c] = NoFrame
        /\ reader_pc = "read"
        /\ reply_map[cell'[c].id] = c
        /\ reply_map'[cell'[c].id] = NoEntry
        /\ \A d \in Callers \ {c} : cell'[d] = cell[d]

C34_DroppedStep ==
    (reader_pc = "read" /\ reader_pc' # "read" /\ reply_map' = reply_map) =>
        cell' = cell

C34_KeptStep(c) ==
    (cell[c] # NoFrame /\ cell'[c] # cell[c]) =>
        /\ cell'[c] = NoFrame
        /\ pc'[c] # pc[c]
        /\ reader_pc' = reader_pc

C34_SlotSetAtMostOnce ==
    [][ /\ \A c \in Callers : C34_DeliveryStep(c)
        /\ C34_DroppedStep
        /\ \A c \in Callers : C34_KeptStep(c) ]_vars

\* a caller holds a delivered frame it has not yet taken, its entry is
\* gone, another caller is registered, and the reader is about to read a
\* frame, which may carry the same invoke id again
C34_Witness ==
    /\ reader_pc = "read"
    /\ \E c \in Callers :
         /\ pc[c] = "wait"
         /\ cell[c] # NoFrame
         /\ reply_map[cell[c].id] = NoEntry
         /\ \E d \in Callers \ {c} : \E i \in Ids : reply_map[i] = d

\* C35: a reply from the target with the requested command, state flags 5
\* and the invoke id of the request makes communicate fail with the ADS
\* error of the AMS error code if that is not 0, else with the ADS error of
\* the result field if that is not 0, both with the operation name of the
\* requested command; a reply from the target whose command, flags or
\* invoke id differ fails with an Io error whatever the two codes are.
C35_Name(k) ==
    IF k = AddNotification THEN "add notification" ELSE "delete notification"

C35_Matches(f, i, o) ==
    f.src = o.target /\ f.cmd = o.cmd /\ f.flags = FlagsReply /\ f.id = i

C35_AdsErrorFromCodes ==
    reply.pc = "checked" =>
      LET f == reply.frame
          i == reply.invoke_id
          o == reply.op
      IN /\ (C35_Matches(f, i, o) /\ f.err # 0) =>
               reply.res = [kind |-> "Ads", action |-> C35_Name(o.cmd),
                            code |-> f.err]
         /\ (C35_Matches(f, i, o) /\ f.err = 0 /\ f.hasResult /\ f.result # 0) =>
               reply.res = [kind |-> "Ads", action |-> C35_Name(o.cmd),
                            code |-> f.result]
         /\ (f.src = o.target /\ ~ C35_Matches(f, i, o)) =>
               reply.res.kind = "Io"

\* a matching reply that carries both an AMS error code and another result
C35_Witness ==
    /\ reply.pc = "checked"
    /\ C35_Matches(reply.frame, reply.invoke_id, reply.op)
    /\ reply.frame.err = 6
    /\ reply.frame.hasResult /\ reply.frame.result = 7
    /\ reply.res.kind = "Ads" /\ reply.res.code = 6

\* C36: every frame the reader puts into a slot is a whole ADS frame (AMS
\* command 0, at least 38 bytes) whose data-length field is its size less
\* 38, whose destination is the client's address, whose command is not
\* Notification, and whose invoke id is the key under which the slot was
\* registered.
C36_HandedFrame(c) ==
    (cell'[c] # cell[c] /\ cell'[c] # NoFrame) =>
        LET f == cell'[c] IN
          /\ f.ams = 0
          /\ ~ IsShort(f)
          /\ FrameSize(f) >= AMS_HEADER_SIZE
          /\ f.dlen = FrameSize(f) - AMS_HEADER_SIZE
          /\ f.dest = Me
          /\ f.cmd # Notification
          /\ reply_map[f.id] = c

C36_HandedFramesChecked == [][ \A c \in Callers : C36_HandedFrame(c) ]_vars

\* a frame sits in a slot after the reader has lost a socket and taken the
\* next one, with a notification in the channel
C36_Witness ==
    /\ \E c \in Callers : cell[c] # NoFrame
    /\ notif_q > 0
    /\ reader_pc = "read"
    /\ buf_pool > 0

\* C37 as stated: the handle a mapping's read or write puts into its
\* request on RW_SYMVAL_BYHANDLE was acquired in the session that is
\* current when the request is written, however the call interleaves with
\* reconnects.
C37_HandleOfCurrentSession ==
    [][ (mapping.pc = "io" /\ mapping'.pc = "idle") =>
            mapping'.used = HandleIn(session_id) ]_vars

\* C38: when Handle::new fails in a mapping's read or write, the call
\* returns the error without a device request, the cached handle and
\* session id stay as they were, and the next call resolves the symbol
\* again, whatever reconnects happen in between.
C38_FailedStep ==
    (mapping.pc = "resolve" /\ mapping'.pc = "idle") =>
        /\ mapping'.res = "Err"
        /\ mapping'.used = mapping.used
        /\ mapping'.session_id = mapping.session_id
        /\ mapping'.handle = mapping.handle
        /\ NeedsHandle(mapping', session_id')

C38_StillNeeded ==
    (mapping.pc = "idle" /\ NeedsHandle(mapping, session_id)) =>
        \/ mapping'.pc = "idle" /\ NeedsHandle(mapping', session_id')
        \/ mapping'.pc = "resolve"

C38_FailedAcquireRetried == [][ C38_FailedStep /\ C38_StillNeeded ]_vars

\* a call has failed to replace the handle of session 1 in session 2: the
\* cache still holds that handle and session id 1, and no request used it
\* in this call
C38_Witness ==
    /\ mapping.pc = "idle"
    /\ mapping.res = "Err"
    /\ mapping.handle = HandleIn(1) /\ mapping.session_id = 1
    /\ mapping.seen = 2
    /\ ~ mapping.fresh

\* C39 as stated: for every reply that write_read_multi accepts, the
\* returned length of each sub-request is at most the capacity of its read
\* buffer, so the assertion of the fix-up never fails.
C39_AssertionHolds == requests.pc # "panicked"

\* C40: purge empties the tracked set and sends nothing: no invoke id is
\* taken, no request is registered and no call starts.  A shutdown takes
\* what the set holds when it starts, so after a purge only the entries
\* added since, and deletes just those; with nothing added since the purge
\* it returns without a request.  A confirmed add after a purge is tracked.
C40_PurgeSendsNothing ==
    Purge =>
        /\ notif_handles' = {}
        /\ UNCHANGED << invoke_id, reply_map, pc, cid, op, cell, shutdown >>

C40_ShutdownTakesWhatIsTracked ==
    /\ DrainStep => shutdown'.taken = notif_handles
    /\ (shutdown.pc = "loop" /\ shutdown.taken = {}) =>
           (shutdown'.issued = << >> /\ shutdown'.pc \in {"loop", "returned"})
    /\ \A c \in Callers :
           (shutdown.pc = "loop" /\ pc[c] # "insert" /\ pc'[c] = "insert") =>
               << op'[c].target, op'[c].handle >> \in shutdown.taken

C40_AddTracked ==
    \A c \in Callers :
        (pc[c] = "track" /\ pc'[c] = "done" /\ op[c].cmd = AddNotification) =>
            << op[c].target, out[c] >> \in notif_handles'

C40_PurgeThenShutdown ==
    [][ C40_PurgeSendsNothing /\ C40_ShutdownTakesWhatIsTracked
        /\ C40_AddTracked ]_vars

\* the last call was a confirmed add, yet nothing is tracked and a shutdown
\* has returned without having found an entry: the handle was purged
C40_Witness ==
    /\ pc["t1"] = "done" /\ ret["t1"] = "Ok"
    /\ op["t1"].cmd = AddNotification
    /\ notif_handles = {}
    /\ shutdown.pc = "returned" /\ shutdown.taken = {}

====
